---- MODULE Spec2Model ----
(***************************************************************************)
(* Model of dcarbone/agentman (agentman.go, multierr.go): the TestInstance *)
(* node handle, the MultiErr error aggregator and the TestCluster          *)
(* membership engine (NewTestCluster, Grow, Shrink, Stop, Instance).       *)
(*                                                                         *)
(* A server started by testutil.NewTestServerConfig is identified by the   *)
(* order in which it was provisioned: 0, 1, 2, ...  A TestInstance is      *)
(* Live while its id is in `server` (ti.server != nil) and Defunct after.  *)
(* Every cluster method takes cl.m for its whole body, so each method is   *)
(* one atomic action here.                                                 *)
(***************************************************************************)
EXTENDS Integers, Sequences, FiniteSets, TLC

\* ------------------------------------------------------------------ bounds
\* Largest "small" argument tried for NewTestCluster(size), Grow(n), Shrink(n).
MaxArg == 2
\* Servers that Grow calls made after construction may provision in one run.
MaxGrow == 2
\* Only servers 0..MaxFlakyId may report an error from their teardown.
MaxFlakyId == 2
\* Names a registry is asked about: 1 .. MaxNames.
MaxNames == 2
\* Servers the provisioning service starts for one registry.
MaxServers == 2
\* Calls of Add each goroutine makes on a shared MultiErr.
MaxAdds == 2
\* Calls the first of two goroutines makes, the second making one, when
\* several paths lead to one node's Stop.
MaxCalls == 1

\* --------------------------------------------------------- program constants
\* math.MaxUint8, the ceiling Grow checks against.
MaxUint8 == 255
\* Conversion of an int to uint8, and uint8 arithmetic: reduce modulo 2^8.
Uint8(x) == x % 256

\* No loop of the code runs more passes than this: the cluster never holds more
\* than MaxUint8 nodes and a uint8 counter takes 256 values.  The loops below
\* are unrolled by halving, which keeps the evaluation shallow.
MaxPasses == MaxUint8 + 2

\* The nil error.  A non-nil error of a server's teardown is the server's id.
Nil == -1

\* ------------------------------------------------------------------- state
VARIABLES
  phase,      \* "none": no cluster yet; "active": NewTestCluster returned cl;
              \* "failed": NewTestCluster returned (nil, err)
  instances,  \* cl.instances: sequence of server ids, index 0 first
  stopped,    \* cl.stopped
  server,     \* ids whose TestInstance has server != nil (Live)
  num,        \* num[id+1]: the index the config callback of server id was given
  handle,     \* the TestInstance a caller obtained through Instance(0), or Nil
  grown,      \* servers provisioned by Grow calls made after construction
  call,       \* the last call: [op, n, after]; for a cl.Stop() made right after
              \* a cl.Stop(), after is what that one returned ("nil", "multi")
  ret,        \* what the last call returned: [kind, errs, offset]
  pre,        \* cluster and servers as they were when the last call began
  trace,      \* what the last call did to the outside world, in order; where
              \* goroutines run side by side, the teardowns of each server so far
  singles,    \* am.singles: name -> server id of the TestInstance
  clusters,   \* am.clusters: name -> [instances, stopped] of the TestCluster
  mu,         \* the mutexes am.m, cl.m and e.m, and where nodes are shared the
              \* ti.m of each: Free, or the goroutine holding it
  procs,      \* the goroutines in flight: goroutine -> its position and locals
  e_errs,     \* e.errs of the MultiErr that goroutines share
  added       \* every error passed to that MultiErr's Add, in the order of the calls

regVars == <<singles, clusters>>
concVars == <<mu, procs, e_errs, added>>
vars == <<phase, instances, stopped, server, num, handle, grown, call, ret, pre, trace,
          singles, clusters, mu, procs, e_errs, added>>

\* The part of the state the code's functions read and write.
World == [instances |-> instances, stopped |-> stopped, server |-> server,
          num |-> num, trace |-> <<>>]

\* One entry of trace.
Ev(what, id, arg) == [ev |-> what, id |-> id, arg |-> arg]

\* Return values.
Ret(kind, errs, offset) == [kind |-> kind, errs |-> errs, offset |-> offset]
RetNil == Ret("nil", <<>>, Nil)
\* A run-time panic (index out of range).
RetPanic == Ret("panic", <<>>, Nil)
\* panic(fmt.Sprintf("... %s is defunct", name))
RetDefunct == Ret("defunct", <<>>, Nil)

\* A map with no entry, and no goroutine.
Empty == <<>>
\* A mutex nobody holds, and every mutex free.
Free == "free"
Unlocked == [am |-> Free, cl |-> Free, e |-> Free]

\* A Lock() that returns at once, whoever holds the mutex.
LockNeverWaits(holder) == TRUE

\* A Lock() that waits for nothing but the registry's worker goroutines.
LockIsShared(holder) == holder \notin {"singles", "clusters"}

\* m.Lock() returns only once nobody holds m.
CanLock(holder) == holder = Free

\* ------------------------------------------------------------- multierr.go
NewMultiErr == <<>>

MultiErrAdd(errs, err) == IF err # Nil THEN Append(errs, err) ELSE errs

MultiErrSize(errs) == Len(errs)

\* e.Err(): nil, or one error made of the text of those held.
MultiErrErr(errs) == IF MultiErrSize(errs) = 0 THEN RetNil ELSE Ret("multi", errs, Nil)

\* ------------------------------------------------------------ TestInstance
\* Outcomes of NewTestInstance: the server starts and the client binds; the
\* server does not start; the server starts and api.NewClient fails.
CreateOutcomes == {"ok", "provision_err", "client_err"}

NewTestInstance(w, cbnum, outcome) ==
  LET id == Len(w.num) IN
  CASE outcome = "provision_err" ->
         [w |-> [w EXCEPT !.trace = Append(@, Ev("provision_failed", Nil, cbnum))],
          id |-> Nil, err |-> id]
    [] outcome = "client_err" ->
         [w |-> [w EXCEPT !.num = Append(@, cbnum),
                          !.trace = @ \o <<Ev("provision", id, cbnum),
                                           Ev("teardown", id, Nil)>>],
          id |-> Nil, err |-> id]
    [] OTHER ->
         [w |-> [w EXCEPT !.num = Append(@, cbnum),
                          !.server = @ \cup {id},
                          !.trace = Append(@, Ev("provision", id, cbnum))],
          id |-> id, err |-> Nil]

\* The accessors of a TestInstance that read ti.server or ti.client.
Accessors == {"HTTPAddr", "HTTPSAddr", "LANAddr", "WANAddr", "HTTPClient",
              "APIClient", "Config"}

\* An accessor that hands out the fields of a defunct instance.
TestInstanceAccessorUnguarded(w, id, acc) ==
  IF acc = "Stopped" THEN Ret(IF id \notin w.server THEN "true" ELSE "false", <<>>, Nil)
  ELSE RetNil

\* ti.Name(), ti.Stopped() and the accessors: what the call returns.  Name
\* and Stopped never look for a server; the others panic without one.
TestInstanceAccessor(w, id, acc) ==
  IF acc = "Name" THEN RetNil
  ELSE IF acc = "Stopped" THEN Ret(IF id \notin w.server THEN "true" ELSE "false", <<>>, Nil)
  ELSE IF id \notin w.server THEN RetDefunct
  ELSE RetNil

\* A TestInstance.Stop that keeps the server when its teardown fails.
TestInstanceStopKeepOnError(w, id, bad) ==
  IF id \notin w.server
    THEN [w |-> [w EXCEPT !.trace = Append(@, Ev("stop", id, Nil))], err |-> Nil]
    ELSE [w |-> [w EXCEPT !.server = IF id \in bad THEN @ ELSE @ \ {id},
                          !.trace = @ \o <<Ev("stop", id, Nil),
                                           Ev("teardown", id, IF id \in bad THEN id ELSE Nil)>>],
          err |-> IF id \in bad THEN id ELSE Nil]

\* ti.Stop(): bad is the set of servers whose teardown reports an error.
TestInstanceStop(w, id, bad) ==
  IF id \notin w.server
    THEN [w |-> [w EXCEPT !.trace = Append(@, Ev("stop", id, Nil))], err |-> Nil]
    ELSE [w |-> [w EXCEPT !.server = @ \ {id},
                          !.trace = @ \o <<Ev("stop", id, Nil),
                                           Ev("teardown", id, IF id \in bad THEN id ELSE Nil)>>],
          err |-> IF id \in bad THEN id ELSE Nil]

\* ------------------------------------------------------------- TestCluster
\* cl.Size() and cl.Stopped()
Size == Len(instances)
Stopped == stopped

\* One pass of the loop of cl.stop(): for i := l - 1; i >= 0; i--
stopIter(st) ==
  IF ~(st.i >= 0) THEN [st EXCEPT !.done = TRUE]
  ELSE LET r == TestInstanceStop(st.w, st.w.instances[st.i + 1], st.bad)
       IN [st EXCEPT !.w = r.w, !.errs = MultiErrAdd(@, r.err), !.i = @ - 1]

\* The loop of cl.stop(), run for at most k passes.
RECURSIVE stopLoop(_, _)
stopLoop(st, k) ==
  IF st.done \/ k = 0 THEN st
  ELSE IF k = 1 THEN stopIter(st)
  ELSE stopLoop(stopLoop(st, k \div 2), k - (k \div 2))

\* A cl.stop() that flips the stopped flag instead of setting it.
TestCluster_stopFlips(w, bad) ==
  LET l == Len(w.instances) IN
  IF l = 0 THEN [w |-> w, ret |-> RetNil]
  ELSE LET r == stopLoop([w |-> w, i |-> l - 1, errs |-> NewMultiErr, bad |-> bad,
                            done |-> FALSE], MaxPasses)
       IN [w |-> [r.w EXCEPT !.stopped = ~@],
           ret |-> IF MultiErrSize(r.errs) > 0 THEN Ret("multi", r.errs, Nil) ELSE RetNil]

\* cl.stop()
TestCluster_stop(w, bad) ==
  LET l == Len(w.instances) IN
  IF l = 0 THEN [w |-> w, ret |-> RetNil]
  ELSE LET r == stopLoop([w |-> w, i |-> l - 1, errs |-> NewMultiErr, bad |-> bad,
                            done |-> FALSE], MaxPasses)
       IN [w |-> [r.w EXCEPT !.stopped = TRUE],
           ret |-> IF MultiErrSize(r.errs) > 0 THEN Ret("multi", r.errs, Nil) ELSE RetNil]

\* A cl.Stop() that reports an error when the cluster is already stopped.
TestClusterStopErrorsWhenStopped(w, bad) ==
  IF w.stopped THEN [w |-> w, ret |-> Ret("multi", <<0>>, Nil)] ELSE TestCluster_stop(w, bad)

\* cl.Stop()
TestClusterStop(w, bad) ==
  IF w.stopped THEN [w |-> w, ret |-> RetNil] ELSE TestCluster_stop(w, bad)

\* cl.Instance(num): the id of the handle it returns, the defunct panic of a
\* stopped cluster, or the panic of an index out of range.
TestClusterInstance(w, n) ==
  IF w.stopped THEN [id |-> Nil, ret |-> RetDefunct]
  ELSE IF ~(n < Len(w.instances)) THEN [id |-> Nil, ret |-> RetPanic]
  ELSE [id |-> w.instances[n + 1], ret |-> RetNil]

\* What the outside world does to a Grow call: nothing fails (at = Nil), or the
\* first failure is at loop index `at` and of kind `kind`.
NoFail == [at |-> Nil, kind |-> "ok"]
FailKinds == {"provision_err", "client_err", "join_err"}
Fails(n, ats) == {NoFail} \cup [at : (0 .. (n - 1)) \cap ats, kind : FailKinds]

\* A pass of the Grow loop that appends the new node before it has joined.
growIterAppendsBeforeJoin(st) ==
  IF ~(st.i < st.n) THEN [st EXCEPT !.done = TRUE]
  ELSE
    LET offset == Uint8(Uint8(st.current) + st.i)
        out == IF st.fail.at = st.i THEN st.fail.kind ELSE "ok"
        r == NewTestInstance(st.w, offset, IF out = "join_err" THEN "ok" ELSE out)
    IN IF r.err # Nil
         THEN [st EXCEPT !.w = r.w, !.ret = Ret("create", <<>>, offset), !.done = TRUE]
       ELSE IF Len(r.w.instances) = 0
         THEN [st EXCEPT !.w = r.w, !.ret = RetPanic, !.done = TRUE]
       ELSE IF r.w.instances[1] \notin r.w.server
         THEN [st EXCEPT !.w = r.w, !.ret = RetDefunct, !.done = TRUE]
       ELSE
         LET j == [r.w EXCEPT !.instances = Append(@, r.id),
                              !.trace = Append(@, Ev("join", r.w.instances[1], r.id))]
         IN IF out = "join_err"
              THEN [st EXCEPT !.w = TestInstanceStop(j, r.id, st.bad).w,
                              !.ret = Ret("join", <<>>, offset), !.done = TRUE]
              ELSE [st EXCEPT !.w = j, !.i = Uint8(@ + 1)]

\* A pass of the Grow loop that joins through the newest member, not member 0.
growIterJoinsThroughPeer(st) ==
  IF ~(st.i < st.n) THEN [st EXCEPT !.done = TRUE]
  ELSE
    LET offset == Uint8(Uint8(st.current) + st.i)
        out == IF st.fail.at = st.i THEN st.fail.kind ELSE "ok"
        r == NewTestInstance(st.w, offset, IF out = "join_err" THEN "ok" ELSE out)
    IN IF r.err # Nil
         THEN [st EXCEPT !.w = r.w, !.ret = Ret("create", <<>>, offset), !.done = TRUE]
       ELSE IF Len(r.w.instances) = 0
         THEN [st EXCEPT !.w = r.w, !.ret = RetPanic, !.done = TRUE]
       ELSE IF r.w.instances[Len(r.w.instances)] \notin r.w.server
         THEN [st EXCEPT !.w = r.w, !.ret = RetDefunct, !.done = TRUE]
       ELSE
         LET j == [r.w EXCEPT !.trace = Append(@, Ev("join", r.w.instances[Len(r.w.instances)],
                                                     r.id))]
         IN IF out = "join_err"
              THEN [st EXCEPT !.w = TestInstanceStop(j, r.id, st.bad).w,
                              !.ret = Ret("join", <<>>, offset), !.done = TRUE]
              ELSE [st EXCEPT !.w = [j EXCEPT !.instances = Append(@, r.id)],
                              !.i = Uint8(@ + 1)]

\* A pass of the Grow loop that leaves running a node that failed to join.
growIterLeavesFailedNode(st) ==
  IF ~(st.i < st.n) THEN [st EXCEPT !.done = TRUE]
  ELSE
    LET offset == Uint8(Uint8(st.current) + st.i)
        out == IF st.fail.at = st.i THEN st.fail.kind ELSE "ok"
        r == NewTestInstance(st.w, offset, IF out = "join_err" THEN "ok" ELSE out)
    IN IF r.err # Nil
         THEN [st EXCEPT !.w = r.w, !.ret = Ret("create", <<>>, offset), !.done = TRUE]
       ELSE IF Len(r.w.instances) = 0
         THEN [st EXCEPT !.w = r.w, !.ret = RetPanic, !.done = TRUE]
       ELSE IF r.w.instances[1] \notin r.w.server
         THEN [st EXCEPT !.w = r.w, !.ret = RetDefunct, !.done = TRUE]
       ELSE
         LET j == [r.w EXCEPT !.trace = Append(@, Ev("join", r.w.instances[1], r.id))]
         IN IF out = "join_err"
              THEN [st EXCEPT !.w = j, !.ret = Ret("join", <<>>, offset), !.done = TRUE]
              ELSE [st EXCEPT !.w = [j EXCEPT !.instances = Append(@, r.id)],
                              !.i = Uint8(@ + 1)]

\* One pass of the loop of cl.Grow(): for i := uint8(0); i < n; i++
growIter(st) ==
  IF ~(st.i < st.n) THEN [st EXCEPT !.done = TRUE]
  ELSE
    LET offset == Uint8(Uint8(st.current) + st.i)
        out == IF st.fail.at = st.i THEN st.fail.kind ELSE "ok"
        r == NewTestInstance(st.w, offset, IF out = "join_err" THEN "ok" ELSE out)
    IN IF r.err # Nil
         THEN [st EXCEPT !.w = r.w, !.ret = Ret("create", <<>>, offset), !.done = TRUE]
       ELSE IF Len(r.w.instances) = 0
         \* cl.instances[0] is out of range
         THEN [st EXCEPT !.w = r.w, !.ret = RetPanic, !.done = TRUE]
       ELSE IF r.w.instances[1] \notin r.w.server
         \* APIClient() of a defunct node 0
         THEN [st EXCEPT !.w = r.w, !.ret = RetDefunct, !.done = TRUE]
       ELSE
         LET j == [r.w EXCEPT !.trace = Append(@, Ev("join", r.w.instances[1], r.id))]
         IN IF out = "join_err"
              THEN [st EXCEPT !.w = TestInstanceStop(j, r.id, st.bad).w,
                              !.ret = Ret("join", <<>>, offset), !.done = TRUE]
              ELSE [st EXCEPT !.w = [j EXCEPT !.instances = Append(@, r.id)],
                              !.i = Uint8(@ + 1)]

\* The loop of cl.Grow(), run for at most k passes.
RECURSIVE growLoop(_, _)
growLoop(st, k) ==
  IF st.done \/ k = 0 THEN st
  ELSE IF k = 1 THEN growIter(st)
  ELSE growLoop(growLoop(st, k \div 2), k - (k \div 2))

\* Whether cl.Grow(n) gets past its stopped check and its capacity check.
growEnters(w, n) == ~w.stopped /\ ~(Len(w.instances) + n > MaxUint8)

\* The body of cl.Grow() after its capacity check.
growFrom(w, current, n, fail, bad) ==
  LET r == growLoop([w |-> w, current |-> current, n |-> n, i |-> 0, fail |-> fail,
                     bad |-> bad, ret |-> RetNil, done |-> FALSE], MaxPasses)
  IN [w |-> r.w, ret |-> r.ret]

\* A Grow whose capacity check is done in uint8, where it can never fail.
TestClusterGrowWrapped(w, n, fail, bad) ==
  IF w.stopped THEN [w |-> w, ret |-> RetDefunct]
  ELSE LET current == Len(w.instances) IN
       IF Uint8(current + n) > MaxUint8
         THEN [w |-> w, ret |-> Ret("capacity", <<>>, Nil)]
         ELSE growFrom(w, current, n, fail, bad)

\* cl.Grow(n, cb)
TestClusterGrow(w, n, fail, bad) ==
  IF w.stopped THEN [w |-> w, ret |-> RetDefunct]
  ELSE LET current == Len(w.instances) IN
       IF current + n > MaxUint8
         THEN [w |-> w, ret |-> Ret("capacity", <<>>, Nil)]
         ELSE growFrom(w, current, n, fail, bad)

\* One pass of the loop of cl.Shrink(): for i := uint8(l - 1); i > diff; i--
shrinkIter(st) ==
  IF ~(st.i > st.diff) THEN [st EXCEPT !.done = TRUE]
  ELSE IF ~(st.i < Len(st.w.instances))
    \* cl.instances[i] is out of range
    THEN [st EXCEPT !.panic = TRUE, !.done = TRUE]
  ELSE LET r == TestInstanceStop(st.w, st.w.instances[st.i + 1], st.bad)
       IN [st EXCEPT !.w = r.w, !.errs = MultiErrAdd(@, r.err), !.i = Uint8(@ - 1)]

\* The loop of cl.Shrink(), run for at most k passes.
RECURSIVE shrinkLoop(_, _)
shrinkLoop(st, k) ==
  IF st.done \/ k = 0 THEN st
  ELSE IF k = 1 THEN shrinkIter(st)
  ELSE shrinkLoop(shrinkLoop(st, k \div 2), k - (k \div 2))

\* A Shrink that returns the errors of its Stops before it truncates.
TestClusterShrinkKeepsOnError(w, n, bad) ==
  LET l == Len(w.instances) IN
  IF n > Uint8(l) THEN TestCluster_stop(w, bad)
  ELSE LET diff == Uint8(Uint8(l) - n)
           r == shrinkLoop([w |-> w, i |-> Uint8(l - 1), diff |-> diff,
                            errs |-> NewMultiErr, bad |-> bad, panic |-> FALSE,
                            done |-> FALSE], MaxPasses)
       IN IF r.panic THEN [w |-> r.w, ret |-> RetPanic]
          ELSE IF MultiErrSize(r.errs) > 0 THEN [w |-> r.w, ret |-> Ret("multi", r.errs, Nil)]
          ELSE [w |-> [r.w EXCEPT !.instances = SubSeq(@, 1, diff)], ret |-> RetNil]

\* cl.Shrink(n)
TestClusterShrink(w, n, bad) ==
  LET l == Len(w.instances) IN
  IF n > Uint8(l) THEN TestCluster_stop(w, bad)
  ELSE LET diff == Uint8(Uint8(l) - n)
           r == shrinkLoop([w |-> w, i |-> Uint8(l - 1), diff |-> diff,
                            errs |-> NewMultiErr, bad |-> bad, panic |-> FALSE,
                            done |-> FALSE], MaxPasses)
       IN IF r.panic THEN [w |-> r.w, ret |-> RetPanic]
          ELSE [w |-> [r.w EXCEPT !.instances = SubSeq(@, 1, diff)],
                ret |-> IF MultiErrSize(r.errs) > 0 THEN Ret("multi", r.errs, Nil)
                        ELSE RetNil]

\* A pass of the unwinding loop that ends at u > 0 and so spares node 0.
unwindIterSkipsZero(st) ==
  IF ~(st.u > 0) THEN [st EXCEPT !.done = TRUE]
  ELSE [st EXCEPT !.w = TestInstanceStop(st.w, st.w.instances[st.u + 1], st.bad).w,
                  !.u = @ - 1]

\* One pass of the unwinding loop of NewTestCluster: for u := ul - 1; u >= 0; u--
unwindIter(st) ==
  IF ~(st.u >= 0) THEN [st EXCEPT !.done = TRUE]
  ELSE [st EXCEPT !.w = TestInstanceStop(st.w, st.w.instances[st.u + 1], st.bad).w,
                  !.u = @ - 1]

\* The unwinding loop of NewTestCluster, run for at most k passes.
RECURSIVE unwindLoop(_, _)
unwindLoop(st, k) ==
  IF st.done \/ k = 0 THEN st
  ELSE IF k = 1 THEN unwindIter(st)
  ELSE unwindLoop(unwindLoop(st, k \div 2), k - (k \div 2))

\* A NewTestCluster that grows by size instead of size - 1.
NewTestClusterGrowsBySize(w, size, out0, fail, bad) ==
  IF size = 0 THEN [w |-> w, cl |-> FALSE, ret |-> Ret("size", <<>>, Nil)]
  ELSE
    LET r0 == NewTestInstance(w, 0, out0) IN
    IF r0.err # Nil THEN [w |-> r0.w, cl |-> FALSE, ret |-> Ret("create", <<>>, 0)]
    ELSE
      LET w0 == [r0.w EXCEPT !.instances = <<r0.id>>, !.stopped = FALSE] IN
      IF size = 1 THEN [w |-> w0, cl |-> TRUE, ret |-> RetNil]
      ELSE
        LET g == TestClusterGrow(w0, size, fail, bad) IN
        IF g.ret.kind # "nil"
          THEN [w |-> unwindLoop([w |-> g.w, u |-> Len(g.w.instances) - 1, bad |-> bad,
                                   done |-> FALSE], MaxPasses).w,
                cl |-> FALSE, ret |-> g.ret]
          ELSE [w |-> g.w, cl |-> TRUE, ret |-> RetNil]

\* NewTestCluster(name, size, cb): out0 is the outcome of creating node 0.
\* cl |-> FALSE stands for the nil cluster returned with an error.
NewTestCluster(w, size, out0, fail, bad) ==
  IF size = 0 THEN [w |-> w, cl |-> FALSE, ret |-> Ret("size", <<>>, Nil)]
  ELSE
    LET r0 == NewTestInstance(w, 0, out0) IN
    IF r0.err # Nil THEN [w |-> r0.w, cl |-> FALSE, ret |-> Ret("create", <<>>, 0)]
    ELSE
      LET w0 == [r0.w EXCEPT !.instances = <<r0.id>>, !.stopped = FALSE] IN
      IF size = 1 THEN [w |-> w0, cl |-> TRUE, ret |-> RetNil]
      ELSE
        LET g == TestClusterGrow(w0, Uint8(size - 1), fail, bad) IN
        IF g.ret.kind \in {"panic", "defunct"} THEN [w |-> g.w, cl |-> FALSE, ret |-> g.ret]
        ELSE IF g.ret.kind # "nil"
          THEN [w |-> unwindLoop([w |-> g.w, u |-> Len(g.w.instances) - 1, bad |-> bad,
                                   done |-> FALSE], MaxPasses).w,
                cl |-> FALSE,
                ret |-> g.ret]
          ELSE [w |-> g.w, cl |-> TRUE, ret |-> RetNil]

\* ---------------------------------------------------------------- AgentMan
\* The part of the state the registry's methods read and write.
Registry == [singles |-> singles, clusters |-> clusters, server |-> server,
             num |-> num, trace |-> <<>>]

\* The world as the methods of cluster c see it, and a cluster not yet built.
ClusterWorld(rw, c) == [instances |-> c.instances, stopped |-> c.stopped,
                        server |-> rw.server, num |-> rw.num, trace |-> rw.trace]
NoCluster == [instances |-> <<>>, stopped |-> FALSE]

\* The registry after a call into a node or a cluster left world w.
Merge(rw, w) == [rw EXCEPT !.server = w.server, !.num = w.num, !.trace = w.trace]

\* delete(m, name)
Delete(m, name) == [k \in DOMAIN m \ {name} |-> m[k]]

\* A NewSingle that overwrites the entry of a name already taken.
AgentManNewSingleOverwrites(rw, name, outcome) ==
  LET r == NewTestInstance(ClusterWorld(rw, NoCluster), Nil, outcome) IN
  IF r.err # Nil THEN [rw |-> Merge(rw, r.w), ret |-> Ret("create", <<>>, Nil)]
  ELSE [rw |-> [Merge(rw, r.w) EXCEPT
                  !.singles = [k \in DOMAIN @ \cup {name} |-> IF k = name THEN r.id ELSE @[k]]],
        ret |-> Ret("nil", <<>>, r.id)]

\* am.NewSingle(name, cb): a returned handle is the offset of the return value.
AgentManNewSingle(rw, name, outcome) ==
  IF name \in DOMAIN rw.singles THEN [rw |-> rw, ret |-> Ret("duplicate", <<>>, Nil)]
  ELSE
    LET r == NewTestInstance(ClusterWorld(rw, NoCluster), Nil, outcome) IN
    IF r.err # Nil THEN [rw |-> Merge(rw, r.w), ret |-> Ret("create", <<>>, Nil)]
    ELSE [rw |-> [Merge(rw, r.w) EXCEPT !.singles = (name :> r.id) @@ @],
          ret |-> Ret("nil", <<>>, r.id)]

\* am.NewCluster(name, size, cb): the cluster returned is told by its node 0.
AgentManNewCluster(rw, name, size, out0, fail) ==
  IF name \in DOMAIN rw.clusters THEN [rw |-> rw, ret |-> Ret("duplicate", <<>>, Nil)]
  ELSE
    LET r == NewTestCluster(ClusterWorld(rw, NoCluster), size, out0, fail, {}) IN
    IF ~r.cl THEN [rw |-> Merge(rw, r.w), ret |-> r.ret]
    ELSE [rw |-> [Merge(rw, r.w) EXCEPT
                    !.clusters = (name :> [instances |-> r.w.instances,
                                           stopped |-> r.w.stopped]) @@ @],
          ret |-> Ret("nil", <<>>, r.w.instances[1])]

\* am.Single(name)
AgentManSingle(rw, name) ==
  IF name \in DOMAIN rw.singles THEN Ret("found", <<>>, rw.singles[name])
  ELSE Ret("notfound", <<>>, Nil)

\* am.Cluster(name)
AgentManCluster(rw, name) ==
  IF name \in DOMAIN rw.clusters THEN Ret("found", <<>>, rw.clusters[name].instances[1])
  ELSE Ret("notfound", <<>>, Nil)

\* A StopSingle that keeps the entry of an instance whose Stop failed.
AgentManStopSingleKeepsOnError(rw, name, bad) ==
  IF name \in DOMAIN rw.singles
    THEN LET r == TestInstanceStop(ClusterWorld(rw, NoCluster), rw.singles[name], bad) IN
         IF r.err # Nil THEN [rw |-> Merge(rw, r.w), ret |-> Ret("teardown", <<r.err>>, Nil)]
         ELSE [rw |-> [Merge(rw, r.w) EXCEPT !.singles = Delete(@, name)], ret |-> RetNil]
    ELSE [rw |-> rw, ret |-> RetNil]

\* am.StopSingle(name)
AgentManStopSingle(rw, name, bad) ==
  IF name \in DOMAIN rw.singles
    THEN LET r == TestInstanceStop(ClusterWorld(rw, NoCluster), rw.singles[name], bad) IN
         [rw |-> [Merge(rw, r.w) EXCEPT !.singles = Delete(@, name)],
          ret |-> IF r.err = Nil THEN RetNil ELSE Ret("teardown", <<r.err>>, Nil)]
    ELSE [rw |-> rw, ret |-> RetNil]

\* am.StopCluster(name)
AgentManStopCluster(rw, name, bad) ==
  IF name \in DOMAIN rw.clusters
    THEN LET r == TestClusterStop(ClusterWorld(rw, rw.clusters[name]), bad) IN
         [rw |-> [Merge(rw, r.w) EXCEPT !.clusters = Delete(@, name)], ret |-> r.ret]
    ELSE [rw |-> rw, ret |-> RetNil]

\* The two goroutines am.Stop() starts, named after the map each ranges over.
Workers == {"singles", "clusters"}

\* The non-nil error a cluster's Stop returned, told apart from the errors of
\* nodes, which are server ids (at most MaxUint8 of them are ever members).
ClusterErr(name) == MaxUint8 + 1 + name

\* One pass of the body of a worker's range loop, up to the value it hands to
\* errs.Add: instance.Stop() on the single, or cluster.Stop() on the cluster,
\* registered as name.
WorkerVisit(rw, g, name, bad) ==
  IF g = "singles"
    THEN LET r == TestInstanceStop(ClusterWorld(rw, NoCluster), rw.singles[name], bad) IN
         [rw |-> Merge(rw, r.w), err |-> r.err]
    ELSE LET r == TestClusterStop(ClusterWorld(rw, rw.clusters[name]), bad) IN
         [rw |-> [Merge(rw, r.w) EXCEPT !.clusters[name] = [instances |-> r.w.instances,
                                                            stopped |-> r.w.stopped]],
          err |-> IF r.ret.kind = "nil" THEN Nil ELSE ClusterErr(name)]

\* An end of am.Stop() that keeps the maps when a Stop failed.
AgentManStopReturnKeepsOnError(rw, es) ==
  IF MultiErrSize(es) > 0 THEN [rw |-> rw, ret |-> Ret("multi", es, Nil)]
  ELSE [rw |-> [rw EXCEPT !.singles = Empty, !.clusters = Empty], ret |-> RetNil]

\* The end of am.Stop(), after wg.Wait(): both maps are made anew, and errs is
\* returned if it holds an error.
AgentManStopReturn(rw, es) ==
  [rw |-> [rw EXCEPT !.singles = Empty, !.clusters = Empty],
   ret |-> IF MultiErrSize(es) > 0 THEN Ret("multi", es, Nil) ELSE RetNil]

\* ----------------------------------------------------------------- actions
\* Arguments tried: the small ones, and with them the two largest a uint8 holds.
Args == 0 .. MaxArg
CeilingArgs == Args \cup {MaxUint8 - 1, MaxUint8}
CeilingSizes == {0, 1, MaxUint8 - 1, MaxUint8}
CeilingShrinks == {0, MaxUint8 - 1, MaxUint8}
\* Loop indexes at which a Grow may be made to fail: the first ones, and the
\* last ones of a Grow to the ceiling.
FailAts == Args \cup {MaxUint8 - 3, MaxUint8 - 2}

\* The choices of the servers whose teardown reports an error, among ids, the
\* servers a call tears down (which does not depend on the choice).
BadSets(ids) == SUBSET (ids \cap (0 .. MaxFlakyId))

Snapshot == [instances |-> instances, stopped |-> stopped, server |-> server,
             singles |-> singles, clusters |-> clusters, added |-> added]

Init ==
  /\ phase = "none"
  /\ instances = <<>>
  /\ stopped = FALSE
  /\ server = {}
  /\ num = <<>>
  /\ handle = Nil
  /\ grown = 0
  /\ call = [op |-> "none", n |-> 0, after |-> "none"]
  /\ ret = RetNil
  /\ pre = [instances |-> <<>>, stopped |-> FALSE, server |-> {},
            singles |-> Empty, clusters |-> Empty, added |-> <<>>]
  /\ trace = <<>>
  /\ singles = Empty
  /\ clusters = Empty
  /\ mu = Unlocked
  /\ procs = Empty
  /\ e_errs = NewMultiErr
  /\ added = <<>>

\* The state after a call that left world w and returned r.
Returns(op, n, w, r) ==
  /\ instances' = w.instances
  /\ stopped' = w.stopped
  /\ server' = w.server
  /\ num' = w.num
  /\ trace' = w.trace
  /\ call' = [op |-> op, n |-> n,
               after |-> IF op = "Stop" /\ call.op = "Stop" THEN ret.kind ELSE "none"]
  /\ ret' = r
  /\ pre' = Snapshot

\* The servers a call tore down, read off its trace.
TornDown(tr) == {tr[i].id : i \in {j \in 1 .. Len(tr) : tr[j].ev = "teardown"}}

\* cl, err := NewTestCluster(name, size, cb).  NewTestCluster and Grow discard
\* the error of every Stop they make, so which teardowns fail is not chosen.
DoNewTestCluster(sizes) ==
  /\ phase = "none"
  /\ \E size \in sizes, out0 \in CreateOutcomes :
       \E fail \in (IF out0 = "ok" /\ size > 1 THEN Fails(size - 1, FailAts) ELSE {NoFail}) :
         LET r == NewTestCluster(World, size, out0, fail, {}) IN
         /\ Returns("NewTestCluster", size, r.w, r.ret)
         /\ phase' = IF r.cl THEN "active" ELSE "failed"
  /\ UNCHANGED <<handle, grown>>
  /\ UNCHANGED <<regVars, concVars>>

\* The ways the outside world can treat Grow(n) that leave it within what is
\* left of MaxGrow: a Grow that provisions nothing (stopped cluster, capacity
\* error) always fits, an unfailing one fits if n does, and a failing one if
\* its failure comes early enough.
FittingFails(n) ==
  LET room == MaxGrow - grown
      first == IF n - 1 < room THEN n - 1 ELSE room
  IN IF stopped \/ Len(instances) + n > MaxUint8 THEN {NoFail}
     ELSE (IF n <= room THEN {NoFail} ELSE {}) \cup [at : 0 .. first, kind : FailKinds]

\* err := cl.Grow(n, cb)
DoGrow(ns) ==
  /\ phase = "active"
  /\ \E n \in ns :
       \E fail \in FittingFails(n) :
         LET r == TestClusterGrow(World, n, fail, {}) IN
         /\ grown + Len(r.w.num) - Len(num) <= MaxGrow
         /\ grown' = grown + Len(r.w.num) - Len(num)
         /\ Returns("Grow", n, r.w, r.ret)
  /\ UNCHANGED <<phase, handle>>
  /\ UNCHANGED <<regVars, concVars>>

\* err := cl.Shrink(n)
DoShrink(ns) ==
  /\ phase = "active"
  /\ \E n \in ns :
       \E bad \in BadSets(TornDown(TestClusterShrink(World, n, {}).w.trace)) :
         LET r == TestClusterShrink(World, n, bad) IN
         Returns("Shrink", n, r.w, r.ret)
  /\ UNCHANGED <<phase, handle, grown>>
  /\ UNCHANGED <<regVars, concVars>>

\* err := cl.Stop()
DoStop ==
  /\ phase = "active"
  /\ \E bad \in BadSets(TornDown(TestClusterStop(World, {}).w.trace)) :
       LET r == TestClusterStop(World, bad) IN
       Returns("Stop", 0, r.w, r.ret)
  /\ UNCHANGED <<phase, handle, grown>>
  /\ UNCHANGED <<regVars, concVars>>

\* ti := cl.Instance(n): the caller keeps the handle it gets on the bootstrap
\* node, and drops the others.
DoInstance ==
  /\ phase = "active"
  /\ \E n \in Args :
       LET r == TestClusterInstance(World, n) IN
       /\ Returns("Instance", n, World, r.ret)
       /\ handle' = IF r.id = Nil \/ n # 0 THEN handle ELSE r.id
  /\ UNCHANGED <<phase, grown>>
  /\ UNCHANGED <<regVars, concVars>>

\* ti.Name(), ti.Stopped(), ti.LANAddr(), ... on the TestInstance obtained from
\* cl.Instance
DoAccessor ==
  /\ handle # Nil
  /\ \E acc \in Accessors \cup {"Name", "Stopped"} :
       Returns(acc, handle, World, TestInstanceAccessor(World, handle, acc))
  /\ UNCHANGED <<phase, handle, grown>>
  /\ UNCHANGED <<regVars, concVars>>

\* err := ti.Stop() on the TestInstance obtained from cl.Instance
DoInstanceStop ==
  /\ handle # Nil
  /\ \E bad \in BadSets({handle} \cap server) :
       LET r == TestInstanceStop(World, handle, bad) IN
       Returns("InstanceStop", handle, r.w,
               IF r.err = Nil THEN RetNil ELSE Ret("teardown", <<r.err>>, Nil))
  /\ UNCHANGED <<phase, handle, grown>>
  /\ UNCHANGED <<regVars, concVars>>

Next ==
  \/ DoNewTestCluster(Args)
  \/ DoGrow(Args)
  \/ DoShrink(Args)
  \/ DoStop
  \/ DoInstance
  \/ DoInstanceStop

Spec == Init /\ [][Next]_vars

\* A cluster that is built, shrunk and stopped, and the handle on its node 0,
\* with every method of the handle called.
NextNode ==
  \/ DoNewTestCluster(Args)
  \/ DoShrink(Args)
  \/ DoStop
  \/ DoInstance
  \/ DoInstanceStop
  \/ DoAccessor

SpecNode == Init /\ [][NextNode]_vars

\* The same cluster built at the uint8 ceiling: 254 or 255 nodes.
NextCeiling ==
  \/ DoNewTestCluster(CeilingSizes)
  \/ DoGrow(CeilingArgs)
  \/ DoShrink(CeilingShrinks)
  \/ DoStop

SpecCeiling == Init /\ [][NextCeiling]_vars

\* ------------------------------------------------------- registry actions
Names == 1 .. MaxNames

\* The state after a registry call that left registry rw and returned r.
RegistryReturns(op, name, rw, r) ==
  /\ singles' = rw.singles
  /\ clusters' = rw.clusters
  /\ server' = rw.server
  /\ num' = rw.num
  /\ trace' = rw.trace
  /\ call' = [op |-> op, n |-> name, after |-> "none"]
  /\ ret' = r
  /\ pre' = Snapshot
  /\ UNCHANGED <<phase, instances, stopped, handle, grown>>

\* s, err := am.NewSingle(name, cb)
DoNewSingle ==
  /\ CanLock(mu.am)
  /\ \E name \in Names, outcome \in CreateOutcomes :
       LET r == AgentManNewSingle(Registry, name, outcome) IN
       /\ Len(r.rw.num) <= MaxServers
       /\ RegistryReturns("NewSingle", name, r.rw, r.ret)
  /\ UNCHANGED concVars

\* cl, err := am.NewCluster(name, size, cb)
DoNewCluster ==
  /\ CanLock(mu.am)
  /\ \E name \in Names, size \in Args, out0 \in CreateOutcomes :
       \E fail \in (IF out0 = "ok" /\ size > 1 THEN Fails(size - 1, FailAts) ELSE {NoFail}) :
         LET r == AgentManNewCluster(Registry, name, size, out0, fail) IN
         /\ Len(r.rw.num) <= MaxServers
         /\ RegistryReturns("NewCluster", name, r.rw, r.ret)
  /\ UNCHANGED concVars

\* s, ok := am.Single(name)
DoSingle ==
  /\ CanLock(mu.am)
  /\ \E name \in Names : RegistryReturns("Single", name, Registry, AgentManSingle(Registry, name))
  /\ UNCHANGED concVars

\* cl, ok := am.Cluster(name)
DoCluster ==
  /\ CanLock(mu.am)
  /\ \E name \in Names : RegistryReturns("Cluster", name, Registry, AgentManCluster(Registry, name))
  /\ UNCHANGED concVars

\* err := am.StopSingle(name)
DoStopSingle ==
  /\ CanLock(mu.am)
  /\ \E name \in Names :
       \E bad \in BadSets(TornDown(AgentManStopSingle(Registry, name, {}).rw.trace)) :
         LET r == AgentManStopSingle(Registry, name, bad) IN
         RegistryReturns("StopSingle", name, r.rw, r.ret)
  /\ UNCHANGED concVars

\* err := am.StopCluster(name)
DoStopCluster ==
  /\ CanLock(mu.am)
  /\ \E name \in Names :
       \E bad \in BadSets(TornDown(AgentManStopCluster(Registry, name, {}).rw.trace)) :
         LET r == AgentManStopCluster(Registry, name, bad) IN
         RegistryReturns("StopCluster", name, r.rw, r.ret)
  /\ UNCHANGED concVars

\* am.Stop() up to wg.Wait(): am.m is taken, errs is made, wg.Add(2), and the
\* two goroutines are started.
DoStopAllBegin ==
  /\ CanLock(mu.am)
  /\ mu' = [mu EXCEPT !.am = "main"]
  /\ e_errs' = NewMultiErr
  /\ added' = <<>>
  /\ procs' = [g \in Workers \cup {"main"} |->
                 IF g = "main" THEN [pc |-> "wait", todo |-> {}, err |-> Nil, wg |-> 2]
                 ELSE [pc |-> "range",
                       todo |-> IF g = "singles" THEN DOMAIN singles ELSE DOMAIN clusters,
                       err |-> Nil, wg |-> 0]]
  /\ call' = [op |-> "StopAllBegin", n |-> 0, after |-> "none"]
  /\ ret' = RetNil
  /\ pre' = Snapshot
  /\ trace' = <<>>
  /\ UNCHANGED <<phase, instances, stopped, handle, grown, server, num, regVars>>

\* A worker takes the next entry of its map, in whatever order range yields
\* them, and calls its Stop.
DoWorkerVisit ==
  /\ \E g \in DOMAIN procs \cap Workers :
       /\ procs[g].pc = "range"
       /\ \E name \in procs[g].todo :
            \E bad \in BadSets(TornDown(WorkerVisit(Registry, g, name, {}).rw.trace)) :
              LET r == WorkerVisit(Registry, g, name, bad) IN
              /\ procs' = [procs EXCEPT ![g].pc = "add", ![g].err = r.err,
                                        ![g].todo = @ \ {name}]
              /\ singles' = r.rw.singles
              /\ clusters' = r.rw.clusters
              /\ server' = r.rw.server
              /\ num' = r.rw.num
              /\ trace' = trace \o r.rw.trace
  /\ UNCHANGED <<phase, instances, stopped, handle, grown, call, ret, pre, mu, e_errs, added>>

\* The worker's errs.(*MultiErr).Add(err), done under e.m.
DoWorkerAdd ==
  /\ \E g \in DOMAIN procs \cap Workers :
       /\ procs[g].pc = "add"
       /\ e_errs' = MultiErrAdd(e_errs, procs[g].err)
       /\ added' = Append(added, procs[g].err)
       /\ procs' = [procs EXCEPT ![g].pc = "range", ![g].err = Nil]
  /\ UNCHANGED <<phase, instances, stopped, handle, grown, call, ret, pre, trace, mu,
                 server, num, regVars>>

\* The worker's range loop is over: wg.Done().
DoWorkerDone ==
  /\ \E g \in DOMAIN procs \cap Workers :
       /\ procs[g].pc = "range" /\ procs[g].todo = {}
       /\ procs' = [procs EXCEPT ![g].pc = "done", !["main"].wg = @ - 1]
  /\ UNCHANGED <<phase, instances, stopped, handle, grown, call, ret, pre, trace, mu,
                 e_errs, added, server, num, regVars>>

\* wg.Wait() returns; the rest of am.Stop() runs and am.m is released.  What
\* errs held is from now on in the returned value only.
DoStopAllReturn ==
  /\ mu.am = "main"
  /\ procs["main"].pc = "wait" /\ procs["main"].wg = 0
  /\ LET r == AgentManStopReturn(Registry, e_errs) IN
     /\ singles' = r.rw.singles
     /\ clusters' = r.rw.clusters
     /\ ret' = r.ret
  /\ call' = [op |-> "StopAll", n |-> 0, after |-> "none"]
  /\ mu' = [mu EXCEPT !.am = Free]
  /\ procs' = Empty
  /\ e_errs' = NewMultiErr
  /\ added' = <<>>
  /\ UNCHANGED <<phase, instances, stopped, handle, grown, pre, trace, server, num>>

NextRegistry ==
  \/ DoNewSingle
  \/ DoNewCluster
  \/ DoSingle
  \/ DoCluster
  \/ DoStopSingle
  \/ DoStopCluster
  \/ DoStopAllBegin
  \/ DoWorkerVisit
  \/ DoWorkerAdd
  \/ DoWorkerDone
  \/ DoStopAllReturn

SpecRegistry == Init /\ [][NextRegistry]_vars

\* The registry after a method of its cluster `name` left world w.
MergeCluster(rw, name, w) ==
  [Merge(rw, w) EXCEPT !.clusters[name] = [instances |-> w.instances, stopped |-> w.stopped]]

\* err := cl.Grow(n, cb) on a cluster the registry holds, which NewCluster or
\* Cluster returned.
DoRegistryGrow ==
  /\ CanLock(mu.am)
  /\ \E name \in DOMAIN clusters, n \in Args :
       \E fail \in {NoFail} \cup [at : 0 .. (n - 1), kind : FailKinds] :
         LET r == TestClusterGrow(ClusterWorld(Registry, clusters[name]), n, fail, {}) IN
         /\ Len(r.w.num) <= MaxServers
         /\ RegistryReturns("Grow", name, MergeCluster(Registry, name, r.w), r.ret)
  /\ UNCHANGED concVars

\* err := cl.Shrink(n) on a cluster the registry holds.
DoRegistryShrink ==
  /\ CanLock(mu.am)
  /\ \E name \in DOMAIN clusters, n \in Args :
       LET w == ClusterWorld(Registry, clusters[name]) IN
       \E bad \in BadSets(TornDown(TestClusterShrink(w, n, {}).w.trace)) :
         LET r == TestClusterShrink(w, n, bad) IN
         RegistryReturns("Shrink", name, MergeCluster(Registry, name, r.w), r.ret)
  /\ UNCHANGED concVars

\* The registry, with the clusters it holds grown and shrunk between its
\* own calls.
NextLeak ==
  \/ DoNewSingle
  \/ DoNewCluster
  \/ DoRegistryGrow
  \/ DoRegistryShrink
  \/ DoStopSingle
  \/ DoStopCluster
  \/ DoStopAllBegin
  \/ DoWorkerVisit
  \/ DoWorkerAdd
  \/ DoWorkerDone
  \/ DoStopAllReturn

SpecLeak == Init /\ [][NextLeak]_vars

\* ------------------------------------------------------- MultiErr actions
\* The errors a goroutine passes to Add, as the workers of am.Stop() do: nil,
\* the error of a node (a server id) from the one, the error of a cluster
\* from the other.
ErrOf(g) == IF g = "singles" THEN 0 ELSE ClusterErr(1)

\* The sequences of at most k values from vs.
RECURSIVE SeqsUpTo(_, _)
SeqsUpTo(vs, k) ==
  IF k = 0 THEN {<<>>}
  ELSE LET shorter == SeqsUpTo(vs, k - 1) IN
       shorter \cup {Append(q, v) : q \in shorter, v \in vs}

\* A MultiErr just made, and two goroutines about to Add to it: each holds
\* the arguments of its calls, in order.
InitMultiErr ==
  /\ phase = "none" /\ instances = <<>> /\ stopped = FALSE /\ server = {} /\ num = <<>>
  /\ handle = Nil /\ grown = 0
  /\ call = [op |-> "none", n |-> 0, after |-> "none"]
  /\ ret = RetNil
  /\ pre = [instances |-> <<>>, stopped |-> FALSE, server |-> {},
            singles |-> Empty, clusters |-> Empty, added |-> <<>>]
  /\ trace = <<>>
  /\ singles = Empty /\ clusters = Empty
  /\ mu = Unlocked
  /\ e_errs = NewMultiErr
  /\ added = <<>>
  /\ \E ts \in [Workers -> SeqsUpTo({0, 1}, MaxAdds)] :
       procs = [g \in Workers |->
                  [pc |-> "idle",
                   todo |-> [i \in 1 .. Len(ts[g]) |-> IF ts[g][i] = 0 THEN Nil ELSE ErrOf(g)],
                   err |-> Nil, seen |-> <<>>]]

\* e.Add(err) is called.
DoAddCall ==
  /\ \E g \in Workers :
       /\ procs[g].pc = "idle" /\ procs[g].todo # <<>>
       /\ procs' = [procs EXCEPT ![g].pc = "lock", ![g].err = Head(procs[g].todo),
                                 ![g].todo = Tail(@)]
  /\ UNCHANGED <<phase, instances, stopped, server, num, handle, grown, call, ret, pre,
                 trace, regVars, mu, e_errs, added>>

\* e.m.Lock() in Add; the calls are counted in the order they get the mutex.
DoAddLock ==
  /\ \E g \in Workers :
       /\ procs[g].pc = "lock"
       /\ CanLock(mu.e)
       /\ mu' = [mu EXCEPT !.e = g]
       /\ added' = Append(added, procs[g].err)
       /\ procs' = [procs EXCEPT ![g].pc = "read"]
  /\ UNCHANGED <<phase, instances, stopped, server, num, handle, grown, call, ret, pre,
                 trace, regVars, e_errs>>

\* Add reads e.errs ...
DoAddRead ==
  /\ \E g \in Workers :
       /\ procs[g].pc = "read"
       /\ procs' = [procs EXCEPT ![g].pc = "write", ![g].seen = e_errs]
  /\ UNCHANGED <<phase, instances, stopped, server, num, handle, grown, call, ret, pre,
                 trace, regVars, mu, e_errs, added>>

\* ... and, err being non-nil, assigns e.errs what it read with err appended.
DoAddWrite ==
  /\ \E g \in Workers :
       /\ procs[g].pc = "write"
       /\ e_errs' = IF procs[g].err # Nil THEN MultiErrAdd(procs[g].seen, procs[g].err)
                    ELSE e_errs
       /\ procs' = [procs EXCEPT ![g].pc = "unlock", ![g].seen = <<>>]
  /\ UNCHANGED <<phase, instances, stopped, server, num, handle, grown, call, ret, pre,
                 trace, regVars, mu, added>>

\* The deferred e.m.Unlock() of Add.
DoAddUnlock ==
  /\ \E g \in Workers :
       /\ procs[g].pc = "unlock"
       /\ mu' = [mu EXCEPT !.e = Free]
       /\ procs' = [procs EXCEPT ![g].pc = "idle", ![g].err = Nil]
  /\ UNCHANGED <<phase, instances, stopped, server, num, handle, grown, call, ret, pre,
                 trace, regVars, e_errs, added>>

\* n := e.Size(), called by a third goroutine: the length, read under e.m.
DoSize ==
  /\ CanLock(mu.e)
  /\ call' = [op |-> "Size", n |-> 0, after |-> "none"]
  /\ ret' = Ret("size", <<>>, MultiErrSize(e_errs))
  /\ pre' = Snapshot
  /\ UNCHANGED <<phase, instances, stopped, server, num, handle, grown, trace, regVars,
                 concVars>>

\* err := e.Err(), called by a third goroutine, from its Size() on.
DoErr ==
  /\ CanLock(mu.e)
  /\ call' = [op |-> "Err", n |-> 0, after |-> "none"]
  /\ ret' = MultiErrErr(e_errs)
  /\ pre' = Snapshot
  /\ UNCHANGED <<phase, instances, stopped, server, num, handle, grown, trace, regVars,
                 concVars>>

NextMultiErr ==
  \/ DoAddCall
  \/ DoAddLock
  \/ DoAddRead
  \/ DoAddWrite
  \/ DoAddUnlock
  \/ DoSize
  \/ DoErr

SpecMultiErr == InitMultiErr /\ [][NextMultiErr]_vars

\* ------------------------------------------- concurrent calls on a cluster
\* Two goroutines that call the methods of one cluster at the same time.
Callers == {"c1", "c2"}
ClusterOps == {"Grow", "Shrink", "Stop", "Size", "Instance"}

NoWorld == [instances |-> <<>>, stopped |-> FALSE, server |-> {}, num |-> <<>>,
            trace |-> <<>>]
NoLoop == [w |-> NoWorld, current |-> 0, n |-> 0, i |-> 0, fail |-> NoFail, bad |-> {},
           ret |-> RetNil, done |-> FALSE]
\* A goroutine between two calls.
IdleCaller == [pc |-> "idle", op |-> "none", n |-> 0, fail |-> NoFail, bad |-> {},
               w0 |-> NoWorld, st |-> NoLoop, ret |-> RetNil]

\* What a method does when it runs alone from world p.w0: the inputs are those
\* of the call of goroutine record p.
Alone(p) ==
  CASE p.op = "Grow" -> TestClusterGrow(p.w0, p.n, p.fail, {})
    [] p.op = "Shrink" -> TestClusterShrink(p.w0, p.n, p.bad)
    [] p.op = "Stop" -> TestClusterStop(p.w0, p.bad)
    [] p.op = "Size" -> [w |-> p.w0, ret |-> Ret("size", <<>>, Len(p.w0.instances))]
    [] OTHER -> [w |-> p.w0, ret |-> TestClusterInstance(p.w0, p.n).ret]

\* A cluster is about to be built, and two goroutines will share it.
InitLock ==
  /\ phase = "none" /\ instances = <<>> /\ stopped = FALSE /\ server = {} /\ num = <<>>
  /\ handle = Nil /\ grown = 0
  /\ call = [op |-> "none", n |-> 0, after |-> "none"]
  /\ ret = RetNil
  /\ pre = [instances |-> <<>>, stopped |-> FALSE, server |-> {},
            singles |-> Empty, clusters |-> Empty, added |-> <<>>]
  /\ trace = <<>>
  /\ singles = Empty /\ clusters = Empty
  /\ mu = Unlocked
  /\ e_errs = NewMultiErr
  /\ added = <<>>
  /\ procs = [g \in Callers |-> IdleCaller]

\* A goroutine calls a method of the cluster and comes to its cl.m.Lock(),
\* the first statement of every one of them.
DoClusterCall ==
  /\ phase = "active"
  /\ \E g \in Callers :
       /\ procs[g].pc = "idle"
       /\ procs' = [procs EXCEPT ![g].pc = "lock"]
  /\ UNCHANGED <<phase, instances, stopped, server, num, handle, grown, call, ret, pre,
                 trace, regVars, mu, e_errs, added>>

\* cl.m.Lock() returns, in whichever method it was called with whichever
\* argument.
DoClusterLock ==
  /\ \E g \in Callers, op \in ClusterOps :
       /\ procs[g].pc = "lock"
       /\ CanLock(mu.cl)
       /\ mu' = [mu EXCEPT !.cl = g]
       /\ \E n \in (IF op \in {"Grow", "Shrink", "Instance"} THEN Args ELSE {0}) :
            procs' = [procs EXCEPT ![g].pc = "body", ![g].op = op, ![g].n = n,
                                      ![g].w0 = World]
  /\ UNCHANGED <<phase, instances, stopped, server, num, handle, grown, call, ret, pre,
                 trace, regVars, e_errs, added>>

\* The body of the method, after Lock: all of it, or for a Grow that gets
\* past its checks, what comes before its loop.
DoClusterBody ==
  /\ \E g \in Callers :
       LET p == procs[g] IN
       /\ p.pc = "body"
       /\ IF p.op = "Grow" /\ growEnters(World, p.n)
            THEN /\ \E fail \in FittingFails(p.n) :
                      procs' = [procs EXCEPT ![g].pc = "loop", ![g].fail = fail,
                                  ![g].st = [NoLoop EXCEPT !.w = World,
                                                           !.current = Len(instances),
                                                           !.n = p.n, !.fail = fail]]
                 /\ UNCHANGED <<instances, stopped, server, num>>
            ELSE \E bad \in BadSets(TornDown(Alone([p EXCEPT !.w0 = World]).w.trace)) :
                   LET r == Alone([p EXCEPT !.w0 = World, !.bad = bad]) IN
                   /\ procs' = [procs EXCEPT ![g].pc = "unlock", ![g].bad = bad,
                                             ![g].ret = r.ret]
                   /\ instances' = r.w.instances
                   /\ stopped' = r.w.stopped
                   /\ server' = r.w.server
                   /\ num' = r.w.num
  /\ UNCHANGED <<phase, handle, grown, call, ret, pre, trace, regVars, mu, e_errs, added>>

\* One pass of the loop of Grow, on the cluster as it is now.
DoGrowPass ==
  /\ \E g \in Callers :
       LET p == procs[g]
           st == growIter([p.st EXCEPT !.w = [World EXCEPT !.trace = p.st.w.trace]])
       IN /\ p.pc = "loop"
          /\ grown + Len(st.w.num) - Len(num) <= MaxGrow
          /\ grown' = grown + Len(st.w.num) - Len(num)
          /\ instances' = st.w.instances
          /\ stopped' = st.w.stopped
          /\ server' = st.w.server
          /\ num' = st.w.num
          /\ procs' = [procs EXCEPT ![g].st = st,
                                    ![g].pc = IF st.done THEN "unlock" ELSE "loop",
                                    ![g].ret = st.ret]
  /\ UNCHANGED <<phase, handle, call, ret, pre, trace, regVars, mu, e_errs, added>>

\* The deferred cl.m.Unlock(), and the return.
DoClusterUnlock ==
  /\ \E g \in Callers :
       /\ procs[g].pc = "unlock"
       /\ mu' = [mu EXCEPT !.cl = Free]
       /\ procs' = [procs EXCEPT ![g] = IdleCaller]
  /\ UNCHANGED <<phase, instances, stopped, server, num, handle, grown, call, ret, pre,
                 trace, regVars, e_errs, added>>

NextLock ==
  \/ DoNewTestCluster(Args)
  \/ DoClusterCall
  \/ DoClusterLock
  \/ DoClusterBody
  \/ DoGrowPass
  \/ DoClusterUnlock

SpecLock == InitLock /\ [][NextLock]_vars

\* ------------------------------------- concurrent paths to a node's Stop
\* Two goroutines share a registry in which NewSingle and NewCluster were
\* called, the handles these returned, and the cluster.  Each calls, at any
\* time, something that ends in TestInstance.Stop: am.StopSingle,
\* am.StopCluster, am.Stop, cl.Stop, cl.Shrink, or Stop on a handle.  Every
\* Lock, every pass of a loop and every statement of TestInstance.Stop is a
\* step of its own.  Here trace[id + 1] is the number of times the teardown
\* of server id was invoked since the registry was made.
PathOps == {"InstanceStop", "ClusterStop", "Shrink", "StopSingle", "StopCluster", "StopAll"}

\* The teardowns of server id among the calls tr made to the provisioning
\* service, and the teardowns counted in cnt with those of tr, for the
\* servers of nm.
Teardowns(tr, id) == {k \in 1 .. Len(tr) : tr[k].ev = "teardown" /\ tr[k].id = id}
TeardownCounts(cnt, tr, nm) ==
  [k \in 1 .. Len(nm) |-> (IF k <= Len(cnt) THEN cnt[k] ELSE 0)
                            + Cardinality(Teardowns(tr, k - 1))]

\* The one name used in the registry.
TheName == 1

IdlePath == [pc |-> "idle", op |-> "none", n |-> 0, left |-> MaxCalls, ti |-> Nil,
             err |-> Nil, errs |-> NewMultiErr, i |-> 0, diff |-> 0, inner |-> "none",
             todo |-> {}, wg |-> 0, fresh |-> Nil, ret |-> RetNil]

\* A worker goroutine of am.Stop(), about to range over the map it is named
\* after.
NewWorker(names) == [IdlePath EXCEPT !.pc = "range", !.op = "worker", !.todo = names,
                                     !.left = 0]

\* The entries of am.clusters, all of them the one cluster there is.
Registered(cs, ins, stp) == [k \in DOMAIN cs |-> [instances |-> ins, stopped |-> stp]]

\* am := NewAgentMan()
NoRegistry == [singles |-> Empty, clusters |-> Empty, server |-> {}, num |-> <<>>,
               trace |-> <<>>]

\* am := NewAgentMan(); am.NewSingle(name, cb); am.NewCluster(name, size, cb),
\* with whatever outcome; the callers keep what was returned to them.
InitBuilt(outcome, size, out0, fail) ==
  /\ handle = Nil /\ grown = 0
  /\ call = [op |-> "none", n |-> 0, after |-> "none"]
  /\ ret = RetNil
  /\ e_errs = NewMultiErr
  /\ added = <<>>
  /\ procs = [g \in Callers |-> [IdlePath EXCEPT !.left = IF g = "c1" THEN MaxCalls ELSE 1]]
  /\ \E rw \in {AgentManNewCluster(AgentManNewSingle(NoRegistry, TheName, outcome).rw,
                                   TheName, size, out0, fail).rw} :
       /\ singles = rw.singles
       /\ clusters = rw.clusters
       /\ server = rw.server
       /\ num = rw.num
       /\ trace = TeardownCounts(<<>>, rw.trace, rw.num)
  /\ phase = IF TheName \in DOMAIN clusters THEN "active" ELSE "failed"
  /\ instances = IF TheName \in DOMAIN clusters THEN clusters[TheName].instances ELSE <<>>
  /\ stopped = IF TheName \in DOMAIN clusters THEN clusters[TheName].stopped ELSE FALSE
  /\ pre = [instances |-> instances, stopped |-> stopped, server |-> server,
            singles |-> singles, clusters |-> clusters, added |-> <<>>]
  /\ mu = [am |-> Free, cl |-> Free, e |-> Free,
           ti |-> [id \in 0 .. (Len(num) - 1) |-> Free]]

\* The registry after NewSingle and NewCluster, however they went.
InitPaths ==
  \E outcome \in CreateOutcomes, size \in Args, out0 \in CreateOutcomes :
    \E fail \in (IF out0 = "ok" /\ size > 1 THEN Fails(size - 1, FailAts) ELSE {NoFail}) :
      InitBuilt(outcome, size, out0, fail)

\* What no step of these goroutines changes.
pathFixed == <<phase, num, handle, grown, call, ret, pre, added>>

\* A goroutine calls one of the operations: Stop on a handle it was given,
\* a method of the cluster it was given, or a method of the registry.  grown
\* counts the servers that the calls made so far may provision, and no call
\* is made that could take it past MaxGrow.
DoPathCall(ops) ==
  /\ \E g \in Callers, op \in ops :
       LET p == procs[g] IN
       /\ p.pc = "idle" /\ p.left > 0
       /\ CASE op = "InstanceStop" ->
                 \E id \in pre.server :
                   procs' = [procs EXCEPT ![g] = [IdlePath EXCEPT !.pc = "ti_lock",
                                                   !.op = op, !.n = id, !.ti = id,
                                                   !.left = p.left - 1]]
            [] op = "Accessor" ->
                 \E id \in pre.server :
                   procs' = [procs EXCEPT ![g] = [IdlePath EXCEPT !.pc = "api_lock",
                                                   !.op = op, !.n = id, !.ti = id,
                                                   !.left = p.left - 1]]
            [] op \in {"ClusterStop", "Shrink", "Grow"} ->
                 /\ phase = "active"
                 /\ \E n \in (IF op = "ClusterStop" THEN {0} ELSE Args) :
                      /\ op = "Grow" => grown + n <= MaxGrow
                      /\ grown' = IF op = "Grow" THEN grown + n ELSE grown
                      /\ procs' = [procs EXCEPT ![g] = [IdlePath EXCEPT !.pc = "cl_lock",
                                                         !.op = op, !.n = n,
                                                         !.left = p.left - 1]]
            [] OTHER ->
                 /\ op = "NewSingle" => grown + 1 <= MaxGrow
                 /\ grown' = IF op = "NewSingle" THEN grown + 1 ELSE grown
                 /\ procs' = [procs EXCEPT ![g] = [IdlePath EXCEPT !.pc = "am_lock",
                                                    !.op = op, !.left = p.left - 1]]
       /\ op \in {"InstanceStop", "Accessor"} => grown' = grown
  /\ UNCHANGED <<phase, num, handle, call, ret, pre, added>>
  /\ UNCHANGED <<instances, stopped, server, trace, regVars, mu, e_errs>>

\* am.m.Lock() returns in StopSingle, StopCluster or Stop, and the method
\* runs up to the Stop it calls; am.Stop() up to its wg.Wait().
DoPathAmLock ==
  /\ \E g \in Callers :
       LET p == procs[g] IN
       /\ p.pc = "am_lock"
       /\ p.op \in {"StopSingle", "StopCluster", "StopAll"}
       /\ CanLock(mu.am)
       /\ mu' = [mu EXCEPT !.am = g]
       /\ CASE p.op = "StopSingle" ->
                 /\ procs' = IF TheName \in DOMAIN singles
                               THEN [procs EXCEPT ![g].pc = "ti_lock",
                                                  ![g].ti = singles[TheName]]
                               ELSE [procs EXCEPT ![g].pc = "am_unlock"]
                 /\ UNCHANGED e_errs
            [] p.op = "StopCluster" ->
                 /\ procs' = IF TheName \in DOMAIN clusters
                               THEN [procs EXCEPT ![g].pc = "cl_lock"]
                               ELSE [procs EXCEPT ![g].pc = "am_unlock"]
                 /\ UNCHANGED e_errs
            [] OTHER ->
                 /\ procs' = [h \in Callers \cup Workers |->
                                IF h = g THEN [p EXCEPT !.pc = "wait", !.wg = 2]
                                ELSE IF h = "singles" THEN NewWorker(DOMAIN singles)
                                ELSE IF h = "clusters" THEN NewWorker(DOMAIN clusters)
                                ELSE procs[h]]
                 /\ e_errs' = NewMultiErr
  /\ UNCHANGED <<pathFixed, instances, stopped, server, trace, regVars>>

\* A worker of am.Stop() takes the next entry of its map and calls its Stop,
\* or its range is over and it calls wg.Done().
DoPathRange ==
  /\ \E g \in DOMAIN procs \cap Workers :
       LET p == procs[g] IN
       /\ p.pc = "range"
       /\ IF p.todo = {}
            THEN \E main \in {h \in Callers : procs[h].pc = "wait"} :
                   procs' = [procs EXCEPT ![g].pc = "done", ![main].wg = @ - 1]
            ELSE \E name \in p.todo :
                   procs' = [procs EXCEPT
                               ![g].todo = @ \ {name},
                               ![g].pc = IF g = "singles" THEN "ti_lock" ELSE "cl_lock",
                               ![g].ti = IF g = "singles" THEN singles[name] ELSE Nil]
  /\ UNCHANGED <<pathFixed, instances, stopped, server, trace, regVars, mu, e_errs>>

\* Whether goroutine record p is in cl.Shrink (and not in cl.Stop).
InShrink(p) == p.op = "Shrink"

\* cl.m.Lock() returns in cl.Stop(), cl.Shrink(n) or cl.Grow(n, cb), and the
\* method runs up to its loop: the stopped check of Stop, `n > uint8(l)` of
\* Shrink and the `l == 0` of cl.stop(), the stopped check and the capacity
\* check of Grow.
DoPathClLock ==
  /\ \E g \in DOMAIN procs :
       LET p == procs[g]
           l == Len(instances)
       IN /\ p.pc = "cl_lock"
          /\ CanLock(mu.cl)
          /\ mu' = [mu EXCEPT !.cl = g]
          /\ procs' =
               IF p.op = "Grow"
                 THEN IF stopped
                        THEN [procs EXCEPT ![g].pc = "cl_unlock", ![g].ret = RetDefunct]
                      ELSE IF l + p.n > MaxUint8
                        THEN [procs EXCEPT ![g].pc = "cl_unlock",
                                           ![g].ret = Ret("capacity", <<>>, Nil)]
                      ELSE [procs EXCEPT ![g].pc = "cl_loop", ![g].inner = "grow",
                                         ![g].diff = l, ![g].i = 0]
               ELSE IF InShrink(p) /\ ~(p.n > Uint8(l))
                 THEN [procs EXCEPT ![g].pc = "cl_loop", ![g].inner = "shrink",
                                    ![g].diff = Uint8(Uint8(l) - p.n),
                                    ![g].i = Uint8(l - 1), ![g].errs = NewMultiErr]
               ELSE IF (~InShrink(p) /\ stopped) \/ l = 0
                 THEN [procs EXCEPT ![g].pc = "cl_unlock", ![g].ret = RetNil]
               ELSE [procs EXCEPT ![g].pc = "cl_loop", ![g].inner = "stop",
                                  ![g].i = l - 1, ![g].errs = NewMultiErr]
  /\ UNCHANGED <<pathFixed, instances, stopped, server, trace, regVars, e_errs>>

\* The test of the loop of cl.stop() or of cl.Shrink(): another pass, which
\* calls cl.instances[i].Stop(), or the statements after the loop.
DoPathClLoop ==
  /\ \E g \in DOMAIN procs :
       LET p == procs[g]
           r == IF MultiErrSize(p.errs) > 0 THEN Ret("multi", p.errs, Nil) ELSE RetNil
       IN /\ p.pc = "cl_loop"
          /\ p.inner \in {"stop", "shrink"}
          /\ CASE p.inner = "stop" /\ p.i >= 0 ->
                    /\ procs' = [procs EXCEPT ![g].pc = "ti_lock",
                                              ![g].ti = instances[p.i + 1]]
                    /\ UNCHANGED <<instances, stopped, clusters>>
               [] p.inner = "stop" /\ ~(p.i >= 0) ->
                    /\ stopped' = TRUE
                    /\ clusters' = Registered(clusters, instances, TRUE)
                    /\ procs' = [procs EXCEPT ![g].pc = "cl_unlock", ![g].ret = r]
                    /\ UNCHANGED instances
               [] p.inner = "shrink" /\ p.i > p.diff /\ ~(p.i < Len(instances)) ->
                    /\ procs' = [procs EXCEPT ![g].pc = "cl_unlock", ![g].ret = RetPanic]
                    /\ UNCHANGED <<instances, stopped, clusters>>
               [] p.inner = "shrink" /\ p.i > p.diff /\ p.i < Len(instances) ->
                    /\ procs' = [procs EXCEPT ![g].pc = "ti_lock",
                                              ![g].ti = instances[p.i + 1]]
                    /\ UNCHANGED <<instances, stopped, clusters>>
               [] OTHER ->
                    /\ instances' = SubSeq(instances, 1, p.diff)
                    /\ clusters' = Registered(clusters, SubSeq(instances, 1, p.diff), stopped)
                    /\ procs' = [procs EXCEPT ![g].pc = "cl_unlock", ![g].ret = r]
                    /\ UNCHANGED stopped
  /\ UNCHANGED <<pathFixed, server, trace, singles, mu, e_errs>>

\* A ti.m.Lock() that returns at once, whoever holds the mutex.
TestInstanceLockNeverWaits(m, id) == TRUE

\* ti.m.Lock() of TestInstance.Stop returns only once nobody holds ti.m.
TestInstanceLock(m, id) == CanLock(m.ti[id])

\* ti.m.Lock() returns in ti.Stop(), and `if ti.server == nil { return nil }`
\* is evaluated.
DoPathNodeLock ==
  /\ \E g \in DOMAIN procs :
       LET p == procs[g] IN
       /\ p.pc = "ti_lock"
       /\ TestInstanceLock(mu, p.ti)
       /\ mu' = [mu EXCEPT !.ti[p.ti] = g]
       /\ procs' = IF p.ti \notin server
                     THEN [procs EXCEPT ![g].pc = "ti_unlock", ![g].err = Nil]
                     ELSE [procs EXCEPT ![g].pc = "ti_teardown"]
  /\ UNCHANGED <<pathFixed, instances, stopped, server, trace, regVars, e_errs>>

\* err := ti.server.Stop(): the teardown, which may report an error (here
\* that of the server provisioned first only).
DoPathNodeTeardown ==
  /\ \E g \in DOMAIN procs :
       LET p == procs[g] IN
       /\ p.pc = "ti_teardown"
       /\ \E bad \in BadSets({p.ti} \cap {0}) :
            LET err == IF p.ti \in bad THEN p.ti ELSE Nil IN
            /\ trace' = [trace EXCEPT ![p.ti + 1] = @ + 1]
            /\ procs' = [procs EXCEPT ![g].pc = "ti_nil", ![g].err = err]
  /\ UNCHANGED <<pathFixed, instances, stopped, server, regVars, mu, e_errs>>

\* ti.server = nil; ti.client = nil
DoPathNodeNil ==
  /\ \E g \in DOMAIN procs :
       LET p == procs[g] IN
       /\ p.pc = "ti_nil"
       /\ server' = server \ {p.ti}
       /\ procs' = [procs EXCEPT ![g].pc = "ti_unlock"]
  /\ UNCHANGED <<pathFixed, instances, stopped, trace, regVars, mu, e_errs>>

\* The deferred ti.m.Unlock(), and what the caller of ti.Stop() does with the
\* error returned: the loops hand it to Add and step i, StopSingle and the
\* caller of Stop on a handle return it, the worker is about to Add it.  What
\* a call returns to the goroutine that made it is not kept.
DoPathNodeUnlock ==
  /\ \E g \in DOMAIN procs :
       LET p == procs[g] IN
       /\ p.pc = "ti_unlock"
       /\ mu' = [mu EXCEPT !.ti[p.ti] = Free]
       /\ procs' =
            CASE p.inner = "stop" ->
                   [procs EXCEPT ![g].pc = "cl_loop", ![g].ti = Nil, ![g].err = Nil,
                                 ![g].errs = MultiErrAdd(@, p.err), ![g].i = @ - 1]
              [] p.inner = "shrink" ->
                   [procs EXCEPT ![g].pc = "cl_loop", ![g].ti = Nil, ![g].err = Nil,
                                 ![g].errs = MultiErrAdd(@, p.err), ![g].i = Uint8(@ - 1)]
              [] p.op = "StopSingle" ->
                   [procs EXCEPT ![g].pc = "am_unlock", ![g].ti = Nil,
                                 ![g].ret = IF p.err = Nil THEN RetNil
                                            ELSE Ret("teardown", <<p.err>>, Nil)]
              [] p.op = "worker" ->
                   [procs EXCEPT ![g].pc = "add", ![g].ti = Nil]
              [] OTHER ->
                   [procs EXCEPT ![g] = [IdlePath EXCEPT !.left = p.left]]
  /\ UNCHANGED <<pathFixed, instances, stopped, server, trace, regVars, e_errs>>

\* An Unlock() written as the last statement of the method, which a panic
\* never reaches.
UnlockAtEnd(holder, r) == IF r.kind \in {"panic", "defunct"} THEN holder ELSE Free

\* defer m.Unlock(): the mutex is released however the method ends.
DeferredUnlock(holder, r) == Free

\* The deferred cl.m.Unlock() of cl.Stop(), cl.Shrink() or cl.Grow(), and the
\* return to the caller, to StopCluster, or to the worker that is about to Add
\* the error.
DoPathClUnlock ==
  /\ \E g \in DOMAIN procs :
       LET p == procs[g] IN
       /\ p.pc = "cl_unlock"
       /\ mu' = [mu EXCEPT !.cl = DeferredUnlock(mu.cl, p.ret)]
       /\ procs' =
            CASE p.op = "StopCluster" ->
                   [procs EXCEPT ![g].pc = "am_unlock", ![g].inner = "none"]
              [] p.op = "worker" ->
                   [procs EXCEPT ![g].pc = "add", ![g].inner = "none",
                                 ![g].err = IF p.ret.kind = "nil" THEN Nil
                                            ELSE ClusterErr(TheName)]
              [] OTHER ->
                   [procs EXCEPT ![g] = [IdlePath EXCEPT !.left = p.left]]
  /\ UNCHANGED <<pathFixed, instances, stopped, server, trace, regVars, e_errs>>

\* errs.(*MultiErr).Add(err) of a worker, under e.m.
DoPathAdd ==
  /\ \E g \in DOMAIN procs \cap Workers :
       LET p == procs[g] IN
       /\ p.pc = "add"
       /\ CanLock(mu.e)
       /\ e_errs' = MultiErrAdd(e_errs, p.err)
       /\ procs' = [procs EXCEPT ![g].pc = "range", ![g].err = Nil,
                                 ![g].errs = NewMultiErr, ![g].ret = RetNil]
  /\ UNCHANGED <<pathFixed, instances, stopped, server, trace, regVars, mu>>

\* The rest of the registry method and its deferred am.m.Unlock(): the delete
\* of StopSingle or StopCluster; the return of NewSingle or NewCluster; in
\* am.Stop(), once wg.Wait() has returned, the
\* two maps made anew and errs returned if it holds an error.
DoPathAmUnlock ==
  /\ \E g \in Callers :
       LET p == procs[g] IN
       /\ mu.am = g
       /\ CASE p.op = "StopSingle" ->
                 /\ p.pc = "am_unlock"
                 /\ singles' = Delete(singles, TheName)
                 /\ procs' = [procs EXCEPT ![g] = [IdlePath EXCEPT !.left = p.left]]
                 /\ UNCHANGED <<clusters, e_errs>>
            [] p.op = "StopCluster" ->
                 /\ p.pc = "am_unlock"
                 /\ clusters' = Delete(clusters, TheName)
                 /\ procs' = [procs EXCEPT ![g] = [IdlePath EXCEPT !.left = p.left]]
                 /\ UNCHANGED <<singles, e_errs>>
            [] p.op \in {"NewSingle", "NewCluster"} ->
                 /\ p.pc = "am_unlock"
                 /\ procs' = [procs EXCEPT ![g] = [IdlePath EXCEPT !.left = p.left]]
                 /\ UNCHANGED <<singles, clusters, e_errs>>
            [] OTHER ->
                 /\ p.pc = "wait" /\ p.wg = 0
                 /\ LET r == AgentManStopReturn(Registry, e_errs) IN
                    /\ singles' = r.rw.singles
                    /\ clusters' = r.rw.clusters
                    /\ procs' = [h \in Callers |->
                                   IF h = g THEN [IdlePath EXCEPT !.left = p.left]
                                   ELSE procs[h]]
                 /\ e_errs' = NewMultiErr
       /\ mu' = [mu EXCEPT !.am = Free]
  /\ UNCHANGED <<pathFixed, instances, stopped, server, trace>>

NextPaths ==
  \/ DoPathCall(PathOps)
  \/ DoPathAmLock
  \/ DoPathRange
  \/ DoPathClLock
  \/ DoPathClLoop
  \/ DoPathNodeLock
  \/ DoPathNodeTeardown
  \/ DoPathNodeNil
  \/ DoPathNodeUnlock
  \/ DoPathClUnlock
  \/ DoPathAdd
  \/ DoPathAmUnlock

SpecPaths == InitPaths /\ [][NextPaths]_vars

\* ------------------------- the same goroutines, creating and reading too
\* The registry holds a single and a full cluster, and the goroutines may
\* also call am.NewSingle, am.NewCluster, cl.Grow and an accessor of a handle.
OrderOps == PathOps \cup {"Grow", "Accessor", "NewSingle", "NewCluster"}

InitOrder == InitBuilt("ok", MaxArg, "ok", NoFail)

\* The mutexes of the nodes, with those of the servers provisioned since.
NodeLocks(m, nm) == [id \in 0 .. (Len(nm) - 1) |-> IF id \in DOMAIN m.ti THEN m.ti[id] ELSE Free]

\* am.m.Lock() returns in NewSingle(name, cb) or NewCluster(name, 0, cb) and
\* the method runs up to its return: the node it makes is not shared until
\* then.
DoPathAmNew ==
  /\ \E g \in Callers :
       LET p == procs[g] IN
       /\ p.pc = "am_lock"
       /\ p.op \in {"NewSingle", "NewCluster"}
       /\ CanLock(mu.am)
       /\ IF p.op = "NewSingle"
            THEN \E outcome \in CreateOutcomes :
                   LET r == AgentManNewSingle(Registry, TheName, outcome)
                   IN /\ singles' = r.rw.singles
                      /\ server' = r.rw.server
                      /\ num' = r.rw.num
                      /\ trace' = TeardownCounts(trace, r.rw.trace, r.rw.num)
                      /\ mu' = [mu EXCEPT !.am = g, !.ti = NodeLocks(mu, r.rw.num)]
                      /\ procs' = [procs EXCEPT ![g].pc = "am_unlock", ![g].ret = r.ret]
            ELSE LET r == AgentManNewCluster(Registry, TheName, 0, "ok", NoFail) IN
                 /\ mu' = [mu EXCEPT !.am = g]
                 /\ procs' = [procs EXCEPT ![g].pc = "am_unlock", ![g].ret = r.ret]
                 /\ UNCHANGED <<singles, server, num, trace>>
  /\ UNCHANGED <<phase, handle, grown, call, ret, pre, added, instances, stopped, clusters,
                 e_errs>>

\* One pass of the loop of cl.Grow(), up to cl.instances[0].APIClient():
\* the loop test and NewTestInstance.
DoPathGrowPass ==
  /\ \E g \in DOMAIN procs :
       LET p == procs[g] IN
       /\ p.pc = "cl_loop" /\ p.inner = "grow"
       /\ IF ~(p.i < p.n)
            THEN /\ procs' = [procs EXCEPT ![g].pc = "cl_unlock", ![g].ret = RetNil]
                 /\ UNCHANGED <<server, num, trace, mu>>
            ELSE \E outcome \in CreateOutcomes :
                   LET r == NewTestInstance(World, Uint8(Uint8(p.diff) + p.i), outcome)
                   IN /\ server' = r.w.server
                      /\ num' = r.w.num
                      /\ trace' = TeardownCounts(trace, r.w.trace, r.w.num)
                      /\ mu' = [mu EXCEPT !.ti = NodeLocks(mu, r.w.num)]
                      /\ procs' =
                           IF r.err # Nil
                             THEN [procs EXCEPT ![g].pc = "cl_unlock",
                                                ![g].ret = Ret("create", <<>>, p.diff + p.i)]
                           ELSE IF Len(instances) = 0
                             THEN [procs EXCEPT ![g].pc = "cl_unlock", ![g].ret = RetPanic]
                           ELSE [procs EXCEPT ![g].pc = "api_lock", ![g].fresh = r.id,
                                              ![g].ti = instances[1]]
  /\ UNCHANGED <<phase, handle, grown, call, ret, pre, added, instances, stopped, regVars,
                 e_errs>>

\* ti.m.Lock() returns in an accessor of a TestInstance (APIClient in Grow),
\* and the accessor runs up to its return or its panic.
DoPathReadLock ==
  /\ \E g \in DOMAIN procs :
       LET p == procs[g] IN
       /\ p.pc = "api_lock"
       /\ TestInstanceLock(mu, p.ti)
       /\ mu' = [mu EXCEPT !.ti[p.ti] = g]
       /\ procs' = [procs EXCEPT ![g].pc = "api_unlock",
                                 ![g].ret = TestInstanceAccessor(World, p.ti, "APIClient")]
  /\ UNCHANGED <<pathFixed, instances, stopped, server, trace, regVars, e_errs>>

\* The deferred ti.m.Unlock() of the accessor; in Grow the panic of a defunct
\* node 0 goes on to the deferred cl.m.Unlock(), and with a client in hand
\* the new node is joined.
DoPathReadUnlock ==
  /\ \E g \in DOMAIN procs :
       LET p == procs[g] IN
       /\ p.pc = "api_unlock"
       /\ mu' = [mu EXCEPT !.ti[p.ti] = DeferredUnlock(mu.ti[p.ti], p.ret)]
       /\ procs' = IF p.op = "Accessor"
                     THEN [procs EXCEPT ![g] = [IdlePath EXCEPT !.left = p.left]]
                   ELSE IF p.ret.kind = "defunct"
                     THEN [procs EXCEPT ![g].pc = "cl_unlock", ![g].ti = Nil]
                   ELSE [procs EXCEPT ![g].pc = "join", ![g].ti = Nil]
  /\ UNCHANGED <<pathFixed, instances, stopped, server, trace, regVars, e_errs>>

\* Agent().Join(instance.LANAddr(), false) and the rest of the pass: the node
\* that joined is appended; the one that did not is stopped, which nobody else
\* can be doing, and Grow returns the error.
DoPathJoin ==
  /\ \E g \in DOMAIN procs :
       LET p == procs[g] IN
       /\ p.pc = "join"
       /\ \E joined \in BOOLEAN :
            IF joined
              THEN /\ instances' = Append(instances, p.fresh)
                   /\ clusters' = Registered(clusters, Append(instances, p.fresh), stopped)
                   /\ trace' = trace
                   /\ procs' = [procs EXCEPT ![g].pc = "cl_loop", ![g].fresh = Nil,
                                             ![g].i = Uint8(@ + 1)]
                   /\ UNCHANGED server
              ELSE LET r == TestInstanceStop(World, p.fresh, {}) IN
                   /\ server' = r.w.server
                   /\ trace' = TeardownCounts(trace, r.w.trace, num)
                   /\ procs' = [procs EXCEPT ![g].pc = "cl_unlock", ![g].fresh = Nil,
                                             ![g].ret = Ret("join", <<>>, p.diff + p.i)]
                   /\ UNCHANGED <<instances, clusters>>
  /\ UNCHANGED <<pathFixed, stopped, singles, mu, e_errs>>

\* The steps inside a call.
OrderSteps ==
  \/ DoPathAmLock
  \/ DoPathAmNew
  \/ DoPathRange
  \/ DoPathClLock
  \/ DoPathClLoop
  \/ DoPathGrowPass
  \/ DoPathReadLock
  \/ DoPathReadUnlock
  \/ DoPathJoin
  \/ DoPathNodeLock
  \/ DoPathNodeTeardown
  \/ DoPathNodeNil
  \/ DoPathNodeUnlock
  \/ DoPathClUnlock
  \/ DoPathAdd
  \/ DoPathAmUnlock

NextOrder ==
  \/ DoPathCall(OrderOps)
  \/ DoPathAmLock
  \/ DoPathAmNew
  \/ DoPathRange
  \/ DoPathClLock
  \/ DoPathClLoop
  \/ DoPathGrowPass
  \/ DoPathReadLock
  \/ DoPathReadUnlock
  \/ DoPathJoin
  \/ DoPathNodeLock
  \/ DoPathNodeTeardown
  \/ DoPathNodeNil
  \/ DoPathNodeUnlock
  \/ DoPathClUnlock
  \/ DoPathAdd
  \/ DoPathAmUnlock

SpecOrder == InitOrder /\ [][NextOrder]_vars

TypeOK ==
  /\ phase \in {"none", "active", "failed"}
  /\ stopped \in BOOLEAN
  /\ server \subseteq 0 .. (Len(num) - 1)
  /\ \A i \in 1 .. Len(instances) : instances[i] \in 0 .. (Len(num) - 1)
  /\ handle \in {Nil} \cup (0 .. (Len(num) - 1))
  /\ grown \in 0 .. MaxGrow

\* ------------------------------------------------------------------ claims
\* The ids of the servers on which a call invoked TestInstance.Stop, in order.
IsStop(e) == e.ev = "stop"
StopIds(tr) == LET st == SelectSeq(tr, IsStop) IN [i \in 1 .. Len(st) |-> st[i].id]

\* The servers whose teardown reported an error during a call.
FailedTeardowns(tr) ==
  {tr[i].id : i \in {j \in 1 .. Len(tr) : tr[j].ev = "teardown" /\ tr[j].arg # Nil}}

\* A call that asked the provisioning service for no server.
NoProvision(tr) == \A i \in 1 .. Len(tr) : tr[i].ev \notin {"provision", "provision_failed"}

Reverse(sq) == [i \in 1 .. Len(sq) |-> sq[Len(sq) + 1 - i]]

\* C1: on a non-stopped cluster of s members, Shrink(n) with 0 <= n < s returns
\* normally and leaves exactly the former members 1..s-n, in their order,
\* whether or not a member's Stop returned an error.
C1_ShrinkKeepsHead ==
  (call.op = "Shrink" /\ ~pre.stopped /\ call.n < Len(pre.instances))
    => /\ ret.kind \in {"nil", "multi"}
       /\ Len(instances) = Len(pre.instances) - call.n
       /\ instances = SubSeq(pre.instances, 1, Len(pre.instances) - call.n)

\* A Shrink of a non-stopped cluster by 0 < n < s that returned an error.
C1_Witness ==
  /\ call.op = "Shrink" /\ ~pre.stopped
  /\ call.n >= 1 /\ call.n < Len(pre.instances)
  /\ ret.kind = "multi"
  /\ Len(instances) = Len(pre.instances) - call.n

\* C2: on a non-stopped cluster of s members, Shrink(n) with n >= s leaves the
\* cluster stopped and with no member.
C2_ShrinkAllIsFullStop ==
  (call.op = "Shrink" /\ ~pre.stopped /\ call.n >= Len(pre.instances))
    => (stopped /\ Len(instances) = 0)

\* C3: Shrink(n) with n < s has invoked Stop on each of the n members it
\* removed, last member first, and each of them is Defunct.
C3_ShrinkStopsRemoved ==
  (call.op = "Shrink" /\ call.n < Len(pre.instances))
    => LET s == Len(pre.instances)
           removed == SubSeq(pre.instances, s - call.n + 1, s)
       IN /\ \A i \in 1 .. Len(removed) : removed[i] \notin server
          /\ StopIds(trace) = Reverse(removed)

\* C4: on a non-stopped cluster of c members, a Grow(n) that returns nil leaves
\* c + n members; one whose node at offset c + i fails to join leaves c + i
\* members: the former ones, then the i servers it provisioned before the
\* failed one, in the order of their creation, and not the failed one.
C4_GrowSizes ==
  (call.op = "Grow" /\ ~pre.stopped)
    => LET c == Len(pre.instances) IN
       /\ ret.kind = "nil" =>
            /\ Len(instances) = c + call.n
            /\ SubSeq(instances, 1, c) = pre.instances
       /\ ret.kind = "join" =>
            LET i == ret.offset - c
                failed == Len(num) - 1
            IN /\ i \in 0 .. (call.n - 1)
               /\ Len(instances) = c + i
               /\ SubSeq(instances, 1, c) = pre.instances
               /\ \A k \in 1 .. i : instances[c + k] = failed - i + k - 1
               /\ \A k \in 1 .. Len(instances) : instances[k] # failed

\* A Grow whose second or later node failed to join.
C4_Witness ==
  /\ call.op = "Grow" /\ ~pre.stopped
  /\ ret.kind = "join"
  /\ ret.offset > Len(pre.instances)
  /\ Len(instances) > Len(pre.instances)

\* C5 as stated: the cluster never holds more than 255 members, and Grow(n) on
\* any cluster of c members with c + n > 255 returns the capacity error, asks
\* for no server and leaves the members as they were.
C5_CapacityOnAnyCluster ==
  /\ Len(instances) <= MaxUint8
  /\ (call.op = "Grow" /\ Len(pre.instances) + call.n > MaxUint8)
       => /\ ret.kind = "capacity"
          /\ NoProvision(trace)
          /\ instances = pre.instances

\* C5 amended: the same, for Grow on a cluster that is not stopped.
C5_Capacity ==
  /\ Len(instances) <= MaxUint8
  /\ (call.op = "Grow" /\ ~pre.stopped /\ Len(pre.instances) + call.n > MaxUint8)
       => /\ ret.kind = "capacity"
          /\ NoProvision(trace)
          /\ instances = pre.instances

\* Grow(1) refused on a non-stopped cluster of 255 members.
C5_Witness ==
  /\ call.op = "Grow" /\ ~pre.stopped
  /\ Len(pre.instances) = MaxUint8 /\ call.n = 1
  /\ ret.kind = "capacity"

\* C6: NewTestCluster(name, 0, cb) fails and asks for no server; a successful
\* NewTestCluster(name, k, cb), k >= 1, returns a non-stopped cluster of k
\* members whose member 0 is the first server provisioned, the one whose
\* config callback was given index 0.
C6_NewTestCluster ==
  call.op = "NewTestCluster"
    => /\ call.n = 0 => (phase = "failed" /\ ret.kind = "size" /\ trace = <<>> /\ num = <<>>)
       /\ (call.n >= 1 /\ phase = "active") =>
            /\ ret = RetNil
            /\ ~stopped
            /\ Len(instances) = call.n
            /\ trace[1] = Ev("provision", instances[1], 0)
            /\ num[instances[1] + 1] = 0

\* A cluster created with the largest size a uint8 holds.
C6_Witness ==
  /\ call.op = "NewTestCluster" /\ call.n = MaxUint8
  /\ phase = "active" /\ Len(instances) = MaxUint8

\* C7: when NewTestCluster fails because its Grow failed, every server
\* provisioned during the construction has been torn down and none is Live;
\* Stop was invoked on the node that failed to join, then on the retained
\* members, last created first.
C7_FailedConstruction ==
  (call.op = "NewTestCluster" /\ phase = "failed" /\ Len(instances) > 0)
    => /\ server = {}
       /\ \A id \in 0 .. (Len(num) - 1) : id \in TornDown(trace)
       /\ StopIds(trace) =
            (IF ret.kind = "join" THEN <<Len(num) - 1>> ELSE <<>>) \o Reverse(instances)

\* A construction that failed at a join with three members already retained.
C7_Witness ==
  /\ call.op = "NewTestCluster" /\ phase = "failed"
  /\ ret.kind = "join"
  /\ Len(instances) >= 3

\* C8: when cl.Stop() returns the cluster is stopped, every member is Defunct,
\* and the error is non-nil exactly when a member's teardown failed.
C8_StopStopsAll ==
  call.op = "Stop"
    => /\ stopped
       /\ \A i \in 1 .. Len(instances) : instances[i] \notin server
       /\ (ret.kind # "nil") <=> (FailedTeardowns(trace) # {})

\* C9: a cl.Stop() made right after a cl.Stop() returns nil, tears nothing
\* down and leaves the stopped flag, the members and their liveness as they
\* were, whatever the first one returned.
C9_StopIdempotent ==
  (call.op = "Stop" /\ call.after # "none")
    => /\ ret = RetNil
       /\ TornDown(trace) = {}
       /\ stopped = pre.stopped
       /\ instances = pre.instances
       /\ server = pre.server

\* A second cl.Stop() after one that returned an error.
C9_Witness ==
  /\ call.op = "Stop" /\ call.after = "multi"
  /\ ret = RetNil

\* C10: ti.Stop() on a Live node tears it down once, returns the teardown's
\* error and leaves the node Defunct either way; on a Defunct node it returns
\* nil and tears nothing down.
C10_InstanceStop ==
  call.op = "InstanceStop"
    => LET id == call.n IN
       /\ id \notin server
       /\ id \in pre.server =>
            /\ SelectSeq(trace, LAMBDA e : e.ev = "teardown") =
                 <<Ev("teardown", id, IF ret.kind = "nil" THEN Nil ELSE id)>>
            /\ ret \in {RetNil, Ret("teardown", <<id>>, Nil)}
       /\ id \notin pre.server => (ret = RetNil /\ TornDown(trace) = {})

\* A first ti.Stop() whose teardown failed: the error is returned and the node
\* is Defunct.
C10_Witness ==
  /\ call.op = "InstanceStop"
  /\ call.n \in pre.server /\ call.n \notin server
  /\ ret.kind = "teardown"

\* C11: on a Defunct node every accessor that reads the server or the client
\* raises the defunct panic, while Name() and Stopped() return; on a stopped
\* cluster Instance(i) raises the defunct panic for every i.
C11_DefunctAccessors ==
  /\ (call.op \in Accessors /\ call.n \notin pre.server) => ret = RetDefunct
  /\ call.op = "Name" => ret = RetNil
  /\ call.op = "Stopped" => ret.kind = (IF call.n \in pre.server THEN "false" ELSE "true")
  /\ (call.op = "Instance" /\ pre.stopped) => ret = RetDefunct

\* Config() called on a node that was stopped.
C11_Witness ==
  /\ call.op = "Config" /\ call.n \notin pre.server
  /\ ret = RetDefunct

\* C15 as stated: a cluster that NewTestCluster returned and that is not
\* stopped has at least one member.
C15_NonStoppedHasMember ==
  (phase = "active" /\ ~stopped) => Len(instances) >= 1

\* The positions in a call's trace of the events of one kind.
Positions(tr, what) == {i \in 1 .. Len(tr) : tr[i].ev = what}

\* C17: in one Grow, a server is asked for only as the first step or right
\* after the join of the server asked for before it, and that one is by then
\* a member; every join goes through member 0 and targets the server just
\* provisioned.
C17_GrowSequential ==
  call.op = "Grow"
    => /\ \A i \in Positions(trace, "provision") \cup Positions(trace, "provision_failed") :
            i > 1 => /\ trace[i - 1].ev = "join"
                     /\ trace[i - 2].ev = "provision"
                     /\ trace[i - 1].arg = trace[i - 2].id
                     /\ \E k \in 1 .. Len(instances) : instances[k] = trace[i - 2].id
       /\ \A i \in Positions(trace, "join") :
            /\ trace[i].id = pre.instances[1]
            /\ trace[i - 1] = Ev("provision", trace[i].arg, trace[i - 1].arg)

\* A Grow of a cluster of two or more members that added two nodes.
C17_Witness ==
  /\ call.op = "Grow" /\ ret = RetNil
  /\ Len(pre.instances) >= 2
  /\ Cardinality(Positions(trace, "join")) >= 2

\* C18: a Grow that returns a join error has invoked Stop on the node that
\* failed to join, which is Defunct, and on no other node: every node that
\* was Live before the call is still Live.
C18_FailedJoinStopped ==
  (call.op = "Grow" /\ ret.kind = "join")
    => LET failed == Len(num) - 1 IN
       /\ StopIds(trace) = <<failed>>
       /\ failed \notin server
       /\ TornDown(trace) = {failed}
       /\ pre.server \subseteq server
       /\ \A k \in (Len(pre.instances) + 1) .. Len(instances) : instances[k] \in server

\* A Grow whose second node failed to join after its first was added.
C18_Witness ==
  /\ call.op = "Grow" /\ ret.kind = "join"
  /\ Len(instances) = Len(pre.instances) + 1
  /\ Len(num) - 1 \notin server

\* C20: no step of a Stop, Shrink, Grow, Size or Instance call on a cluster,
\* made by whichever goroutine, clears its stopped flag.
C20_StoppedOneWay == [][stopped => stopped']_vars

\* A Shrink on a stopped cluster has gone through cl.stop() once more, and a
\* Grow is waiting to be let at the cluster.
C20_Witness ==
  /\ DOMAIN procs = Callers
  /\ \E g \in Callers :
       LET p == procs[g] IN
       /\ p.pc = "unlock" /\ p.op = "Shrink"
       /\ p.w0.stopped /\ stopped
       /\ p.n > Len(p.w0.instances) /\ Len(p.w0.instances) >= 1

\* C12: NewSingle(name) with name already in am.singles, and NewCluster(name)
\* with name already in am.clusters, return the duplicate-name error, ask for
\* no server and leave both maps and every server as they were; the lookup of
\* name still returns the handle registered before.
C12_RegistryUniqueness ==
  /\ (call.op = "NewSingle" /\ call.n \in DOMAIN pre.singles)
       => /\ ret = Ret("duplicate", <<>>, Nil)
          /\ trace = <<>>
          /\ singles = pre.singles /\ clusters = pre.clusters /\ server = pre.server
          /\ AgentManSingle(Registry, call.n) = Ret("found", <<>>, pre.singles[call.n])
  /\ (call.op = "NewCluster" /\ call.n \in DOMAIN pre.clusters)
       => /\ ret = Ret("duplicate", <<>>, Nil)
          /\ trace = <<>>
          /\ singles = pre.singles /\ clusters = pre.clusters /\ server = pre.server
          /\ AgentManCluster(Registry, call.n) =
               Ret("found", <<>>, pre.clusters[call.n].instances[1])

\* A second NewSingle of a name, refused while a cluster holds the name too.
C12_Witness ==
  /\ call.op = "NewSingle" /\ call.n \in DOMAIN pre.singles
  /\ call.n \in DOMAIN clusters
  /\ ret.kind = "duplicate"

\* C13: after StopSingle(name) the singles map is the former one without
\* name, and after StopCluster(name) so is the clusters map, whatever the
\* underlying Stop returned; the other map is untouched, the lookup of name
\* finds nothing, and creating a name that is not in its map never fails as a
\* duplicate.
C13_StopEvicts ==
  /\ call.op = "StopSingle"
       => /\ singles = Delete(pre.singles, call.n) /\ clusters = pre.clusters
          /\ AgentManSingle(Registry, call.n) = Ret("notfound", <<>>, Nil)
  /\ call.op = "StopCluster"
       => /\ clusters = Delete(pre.clusters, call.n) /\ singles = pre.singles
          /\ AgentManCluster(Registry, call.n) = Ret("notfound", <<>>, Nil)
  /\ (call.op = "NewSingle" /\ call.n \notin DOMAIN pre.singles) => ret.kind # "duplicate"
  /\ (call.op = "NewCluster" /\ call.n \notin DOMAIN pre.clusters) => ret.kind # "duplicate"

\* A StopSingle whose teardown failed, with another single left registered.
C13_Witness ==
  /\ call.op = "StopSingle" /\ call.n \in DOMAIN pre.singles
  /\ ret.kind = "teardown"
  /\ call.n \notin DOMAIN singles /\ DOMAIN singles # {}

\* The entries of the registry, as it was when am.Stop() began, whose Stop
\* returned an error: the singles whose teardown failed and the clusters with
\* a member whose teardown failed.
FailedHandles ==
  Cardinality({n \in DOMAIN pre.singles : pre.singles[n] \in FailedTeardowns(trace)})
  + Cardinality({n \in DOMAIN pre.clusters :
                   \E i \in 1 .. Len(pre.clusters[n].instances) :
                     pre.clusters[n].instances[i] \in FailedTeardowns(trace)})

\* C14: when am.Stop() returns both maps are empty; it returns nil exactly
\* when no held single's and no held cluster's Stop failed, and otherwise a
\* MultiErr with one error for each that did, however the steps of the two
\* workers interleave.
C14_StopAll ==
  call.op = "StopAll"
    => /\ singles = Empty /\ clusters = Empty
       /\ (ret = RetNil) <=> (FailedHandles = 0)
       /\ ret # RetNil => (ret.kind = "multi" /\ MultiErrSize(ret.errs) = FailedHandles)

\* An am.Stop() in which the Stop of a single and the Stop of a cluster both
\* failed.
C14_Witness ==
  /\ call.op = "StopAll"
  /\ ret.kind = "multi" /\ MultiErrSize(ret.errs) = 2
  /\ DOMAIN pre.singles # {} /\ DOMAIN pre.clusters # {}
  /\ \E i \in 1 .. 2 : ret.errs[i] > MaxUint8

\* The non-nil errors of a sequence of errors, in their order.
IsError(err) == err # Nil
NonNil(es) == SelectSeq(es, IsError)

C19_Serialized ==
  \A g \in DOMAIN procs \cap Callers :
    LET p == procs[g] IN
    /\ p.pc \in {"body", "loop", "unlock"} => mu.cl = g
    /\ p.pc = "unlock" =>
         LET r == Alone(p) IN
         /\ p.ret = r.ret
         /\ instances = r.w.instances /\ stopped = r.w.stopped
         /\ server = r.w.server /\ num = r.w.num

\* A Grow has added its first node and not yet its second, while the other
\* goroutine waits at the Lock of the method it called.
C19_Witness ==
  /\ DOMAIN procs = Callers
  /\ procs["c1"].pc = "loop" /\ procs["c1"].n = 2 /\ procs["c1"].st.i = 1
  /\ Len(instances) = Len(procs["c1"].w0.instances) + 1
  /\ procs["c2"].pc = "lock"

\* C21: Add records an entry for every call, a nil error too, and Size()
\* counts every entry, the nils included: whenever no Add is under way the
\* MultiErr holds every argument passed to Add so far, and Size() is the
\* number of Add calls made.
C21_AddRecordsNil ==
  /\ mu.e = Free => e_errs = added
  /\ call.op = "Size" => ret.offset = Len(pre.added)

\* C22: in every execution the teardown of a server is invoked at most once,
\* however many goroutines reach the Stop of its TestInstance and by whichever
\* path (a handle, cl.Stop, cl.Shrink, am.StopSingle, am.StopCluster, am.Stop).
C22_TeardownOnce ==
  \A id \in 0 .. (Len(num) - 1) : trace[id + 1] <= 1

\* Two goroutines are in Stop on the same node at once, one through the
\* registry or the cluster and one through a handle: one has torn the server
\* down and holds ti.m, the other waits at ti.m.Lock().
C22_Witness ==
  /\ DOMAIN mu = {"am", "cl", "e", "ti"}
  /\ \E g, h \in DOMAIN procs :
       /\ procs[g].pc = "ti_nil" /\ procs[h].pc = "ti_lock"
       /\ procs[g].ti = procs[h].ti
       /\ procs[g].op # "InstanceStop" /\ procs[h].op = "InstanceStop"
       /\ trace[procs[g].ti + 1] = 1

\* The node mutexes goroutine g holds.
HeldNodes(g) == {id \in DOMAIN mu.ti : mu.ti[id] = g}

\* C23: no deadlock.  A goroutine waiting for the registry's mutex holds no
\* mutex at all, one waiting for a cluster's mutex holds neither that of a
\* cluster nor that of a node, and one waiting for a node's mutex holds that
\* of no node: the order is registry, cluster, node.  Whenever a call is
\* under way some goroutine can take a step of one, so that every call,
\* am.Stop() waiting for its workers too, comes to its return; and when no
\* call is under way every mutex is free.
C23_NoDeadlock ==
  /\ \A g \in DOMAIN procs :
       LET p == procs[g] IN
       /\ p.pc = "am_lock" => mu.am # g /\ mu.cl # g /\ HeldNodes(g) = {}
       /\ p.pc = "cl_lock" => mu.cl # g /\ HeldNodes(g) = {}
       /\ p.pc \in {"ti_lock", "api_lock"} => HeldNodes(g) = {}
       /\ (mu.cl = g \/ HeldNodes(g) # {}) => mu.e # g
  /\ (\E g \in DOMAIN procs : procs[g].pc # "idle") => ENABLED OrderSteps
  /\ (\A g \in DOMAIN procs : procs[g].pc = "idle") =>
       /\ mu.am = Free /\ mu.cl = Free /\ mu.e = Free
       /\ \A id \in DOMAIN mu.ti : mu.ti[id] = Free

\* am.Stop() holds the registry's mutex and waits for its workers; the
\* worker on the clusters holds the cluster's mutex and waits for the mutex
\* of a node, which the other caller holds in Stop on its handle.
C23_Witness ==
  /\ DOMAIN procs = Callers \cup Workers
  /\ \E main, other \in Callers :
       /\ procs[main].pc = "wait" /\ mu.am = main
       /\ mu.cl = "clusters" /\ procs["clusters"].pc = "ti_lock"
       /\ mu.ti[procs["clusters"].ti] = other
       /\ procs[other].op = "InstanceStop"

\* C24: Shrink(0) does nothing, whatever the cluster, the one without a
\* member too: it returns nil and does not panic, it calls Stop on no node,
\* and the members and the stopped flag are what they were.
C24_ShrinkZeroNoOp ==
  (call.op = "Shrink" /\ call.n = 0) =>
    /\ ret = RetNil
    /\ trace = <<>>
    /\ server = pre.server
    /\ instances = pre.instances
    /\ stopped = pre.stopped

\* C25: the registry leaks no node.  Once am.Stop() has returned, after
\* whatever NewSingle, NewCluster, Grow, Shrink, StopSingle and StopCluster
\* calls, no server that was provisioned is still Live.
C25_NoLeak ==
  call.op = "StopAll" => server = {}

====
